---------------------------- MODULE Spec2Model ----------------------------
(***************************************************************************)
(* Citizen Feedback AI Agent: the analytics engine                         *)
(* (src/src/advanced_analytics.py) and the recommendation engine           *)
(* (src/src/ai/recommendation_engine.py).                                  *)
(*                                                                         *)
(* Numbers.  Times are integers counting ticks of 1/15 hour (4 minutes):   *)
(* every SLA target and every 20% threshold is a whole number of ticks,    *)
(* and no value is a rounding tie.  Fractions are pairs <<n, d>>, d > 0,   *)
(* compared by cross-multiplication, so the arithmetic is exact: the       *)
(* rounding error of Python's binary floats is not modelled.  Reported     *)
(* values that the code rounds to one decimal are integers counting        *)
(* tenths.  Confidences are integers counting tenths.                      *)
(***************************************************************************)
EXTENDS Integers, Sequences, FiniteSets, TLC

VARIABLES
    df,         \* the ticket collection (the DataFrame handed to the analyzers)
    now,        \* the wall clock read by datetime.now(), in ticks
    sla,        \* what the last predict_sla_breaches call returned, or NoResult
    breach,     \* a ticket row and its _calculate_breach_probability value
    dept,       \* what the last analyze_department_performance call returned
    providers,  \* how each AI component of the RecommendationEngine answers
    rec,        \* what analyze_feedback_comprehensive returned, or NoResult
    second,     \* a second invocation for the same ticket, or NoResult
    geo,        \* what analyze_geospatial_distribution returned, or NoResult
    trends,     \* what calculate_trends returned, or NoResult
    engine,     \* the AdvancedAnalytics object: self.sla_config, self.department_mapping
    store,      \* the stored feedback items the admin portal works on
    session,    \* the citizen portal's st.session_state, or NoResult
    script      \* where the citizen portal's script run stands, or NoResult

vars == <<df, now, sla, breach, dept, providers, rec, second, geo, trends, engine, store, session,
          script>>

NoResult == [kind |-> "none"]

(***************************************************************************)
(* Bounds of the model.                                                    *)
(***************************************************************************)
MaxTickets == 2

\* The largest department collection whose trend is analysed.
MaxDeptTickets == 3

\* The largest collection whose areas are ranked.
MaxGeoTickets == 3

\* The largest collection whose trends are calculated.
MaxTrendTickets == 3

\* The number of stored feedback items the admin works on.
MaxItems == 2

\* The number of submissions one citizen session stores.
MaxSubmissions == 2

(***************************************************************************)
(* Arithmetic helpers.                                                     *)
(***************************************************************************)
Hours(h) == 15 * h

RECURSIVE GCD(_, _)
GCD(a, b) == IF b = 0 THEN a ELSE GCD(b, a % b)

\* Fractions <<n, d>> with d > 0, kept in lowest terms by FNorm.
FNorm(a) ==
    LET g == GCD(IF a[1] < 0 THEN 0 - a[1] ELSE a[1], a[2])
    IN  <<a[1] \div g, a[2] \div g>>
FLess(a, b) == a[1] * b[2] < b[1] * a[2]
FLeq(a, b) == a[1] * b[2] <= b[1] * a[2]
FAdd(a, b) ==
    LET l == (a[2] \div GCD(a[2], b[2])) * b[2]
    IN  FNorm(<<a[1] * (l \div a[2]) + b[1] * (l \div b[2]), l>>)
FSub(a, b) == FAdd(a, <<0 - b[1], b[2]>>)
FScale(k, a) == FNorm(<<k * a[1], a[2]>>)
FDiv(a, k) == FNorm(<<a[1], a[2] * k>>)
FMin(a, b) == IF FLess(a, b) THEN a ELSE b
FMax(a, b) == IF FLess(a, b) THEN b ELSE a

\* Python's round(): the nearest integer to n/d (n >= 0), ties to the even one.
Rounded(n, d) ==
    LET q == n \div d
        r == n % d
    IN  IF 2 * r < d THEN q
        ELSE IF 2 * r > d THEN q + 1
        ELSE IF q % 2 = 0 THEN q ELSE q + 1

\* round(x, 1) of x = n/d >= 0, as a count of tenths.
Round1(x) == Rounded(10 * x[1], x[2])

RECURSIVE SumSeq(_)
SumSeq(s) == IF s = <<>> THEN 0 ELSE Head(s) + SumSeq(Tail(s))

\* Python's sorted(key=...): the order in which a stable ascending sort visits
\* the positions of keys; with reverse=True the sort is stable and descending.
SortOrderIgnoringReverse(keys, reverse) ==
    LET n == Len(keys)
        Before(j, i) == keys[j] < keys[i] \/ (keys[j] = keys[i] /\ j < i)
        Rank(i) == Cardinality({j \in 1..n : Before(j, i)}) + 1
    IN  [p \in 1..n |-> CHOOSE i \in 1..n : Rank(i) = p]
SortOrderAsGiven(keys, reverse) == [p \in 1..Len(keys) |-> p]
SortOrder(keys, reverse) ==
    LET n == Len(keys)
        Before(j, i) ==
            \/ IF reverse THEN keys[j] > keys[i] ELSE keys[j] < keys[i]
            \/ keys[j] = keys[i] /\ j < i
        Rank(i) == Cardinality({j \in 1..n : Before(j, i)}) + 1
    IN  [p \in 1..n |-> CHOOSE i \in 1..n : Rank(i) = p]

Reorder(s, order) == [p \in 1..Len(s) |-> s[order[p]]]

(***************************************************************************)
(* AdvancedAnalytics.__init__: the static tables.                          *)
(***************************************************************************)
SlaUrgencies == {"Critical", "High", "Medium", "Low"}

\* self.sla_config, in hours
sla_config(u) ==
    CASE u = "Critical" -> 4
      [] u = "High" -> 24
      [] u = "Medium" -> 72
      [] u = "Low" -> 168

\* The urgency values a stored ticket can carry: the SLA policy's keys and the
\* citizen form's "Emergency", which is no key of sla_config.
Urgencies == SlaUrgencies \cup {"Emergency"}

OpenStatuses == {"New", "In Review", "In Progress"}
ResolvedStatuses == {"Resolved", "Closed"}
Statuses == OpenStatuses \cup ResolvedStatuses


(***************************************************************************)
(* Tickets.  A ticket is a row of the DataFrame: id, timestamp (the        *)
(* creation time, in ticks; parsable says whether pd.to_datetime could     *)
(* read it), status, urgency, category, sentiment, and updated_at (the     *)
(* time of its last update: for a Resolved or Closed ticket, the time it   *)
(* was resolved).                                                          *)
(***************************************************************************)
Ticket(i, ts, st, u, cat, sent, upd) ==
    [id |-> i, timestamp |-> ts, parsable |-> TRUE, status |-> st,
     urgency |-> u, category |-> cat, sentiment |-> sent, updated_at |-> upd]

IsOpen(t) == t.status \in OpenStatuses
IsResolved(t) == t.status \in ResolvedStatuses

\* df[df['status'].isin(statuses)]
RowsWithStatus(rows, statuses) == SelectSeq(rows, LAMBDA t : t.status \in statuses)

(***************************************************************************)
(* predict_sla_breaches and its helpers.                                   *)
(***************************************************************************)
\* open_tickets['urgency'].map(self.sla_config).fillna(72), in hours
SlaHoursDefaultingToLow(u) == IF u \in SlaUrgencies THEN sla_config(u) ELSE 168
SlaHours(u) == IF u \in SlaUrgencies THEN sla_config(u) ELSE 72

\* An open ticket with the three columns the handler adds, in ticks.  An
\* unparsable timestamp is NaT: hours_elapsed and hours_remaining are NaN
\* (here 0, guarded by parsable wherever they are compared).
SlaRowElapsedLessTarget(t, clock) ==
    LET elapsed == IF t.parsable THEN clock - t.timestamp ELSE 0
        target == Hours(SlaHours(t.urgency))
    IN  [id |-> t.id, urgency |-> t.urgency, status |-> t.status,
         parsable |-> t.parsable,
         hours_elapsed |-> elapsed,
         sla_hours |-> target,
         hours_remaining |-> IF t.parsable THEN elapsed - target ELSE 0]
SlaRow(t, clock) ==
    LET elapsed == IF t.parsable THEN clock - t.timestamp ELSE 0
        target == Hours(SlaHours(t.urgency))
    IN  [id |-> t.id, urgency |-> t.urgency, status |-> t.status,
         parsable |-> t.parsable,
         hours_elapsed |-> elapsed,
         sla_hours |-> target,
         hours_remaining |-> IF t.parsable THEN target - elapsed ELSE 0]

\* open_tickets['hours_remaining'] < 0   (NaN < 0 is False)
IsBreached(r) == r.parsable /\ r.hours_remaining < 0

\* (hours_remaining >= 0) & (hours_remaining < sla_hours * 0.2)
IsAtRiskUnbounded(r) ==
    /\ r.parsable
    /\ 5 * r.hours_remaining < r.sla_hours
IsAtRiskInclusive(r) ==
    /\ r.parsable
    /\ r.hours_remaining >= 0
    /\ 5 * r.hours_remaining <= r.sla_hours
IsAtRisk(r) ==
    /\ r.parsable
    /\ r.hours_remaining >= 0
    /\ 5 * r.hours_remaining < r.sla_hours

\* urgency_factor.get(ticket.get('urgency', 'Medium'), 0.5), in hundredths
urgency_factor(u) ==
    CASE u = "Critical" -> 90
      [] u = "High" -> 75
      [] u = "Medium" -> 50
      [] u = "Low" -> 30
      [] OTHER -> 50

\* _calculate_breach_probability(ticket, historical_df): a fraction
CalculateBreachProbabilitySwapped(r) ==
    LET raw == <<r.sla_hours - r.hours_remaining, r.sla_hours>>
        time_factor == FMax(<<0, 1>>, FMin(<<1, 1>>, raw))
        probability ==
            FAdd(FDiv(FScale(3, time_factor), 10),
                 <<7 * urgency_factor(r.urgency), 1000>>)
    IN  FMin(<<1, 1>>, probability)
CalculateBreachProbabilityDecaying(r) ==
    LET raw == <<r.hours_remaining, r.sla_hours>>
        time_factor == FMax(<<0, 1>>, FMin(<<1, 1>>, raw))
        probability ==
            FAdd(FDiv(FScale(7, time_factor), 10),
                 <<3 * urgency_factor(r.urgency), 1000>>)
    IN  FMin(<<1, 1>>, probability)
CalculateBreachProbability(r) ==
    LET raw == <<r.sla_hours - r.hours_remaining, r.sla_hours>>
        time_factor == FMax(<<0, 1>>, FMin(<<1, 1>>, raw))
        probability ==
            FAdd(FDiv(FScale(7, time_factor), 10),
                 <<3 * urgency_factor(r.urgency), 1000>>)
    IN  FMin(<<1, 1>>, probability)

\* _get_recommended_action(breach_prob)
GetRecommendedAction(p) ==
    IF FLess(<<8, 10>>, p) THEN "URGENT: Immediate escalation required"
    ELSE IF FLess(<<6, 10>>, p) THEN "High priority: Assign resources immediately"
    ELSE IF FLess(<<4, 10>>, p) THEN "Monitor closely and prioritize"
    ELSE "Standard tracking"

\* One entry of at_risk_details.
AtRiskDetail(r) ==
    LET p == CalculateBreachProbability(r)
    IN  [id |-> r.id, urgency |-> r.urgency,
         hours_remaining |-> Round1(<<r.hours_remaining, 15>>),
         breach_probability |-> Round1(FScale(100, p)),
         recommended_action |-> GetRecommendedAction(p)]

\* One entry of breached_details.
BreachedDetail(r) ==
    [id |-> r.id, urgency |-> r.urgency,
     hours_overdue |-> Round1(<<0 - r.hours_remaining, 15>>),
     escalation_needed |-> r.urgency \in {"Critical", "High"}]

\* _calculate_sla_performance(resolved_df): compliant is the number of rows for
\* which np.random.random() fell below the urgency's simulated compliance.
CalculateSlaPerformance(resolved, compliant) ==
    IF resolved = <<>> THEN [compliant |-> 0, breached |-> 0]
    ELSE LET total == Len(resolved)
         IN  [compliant |-> Round1(<<compliant * 100, total>>),
              breached |-> Round1(<<(total - compliant) * 100, total>>)]

\* _generate_sla_recommendations(at_risk, breached)
GenerateSlaRecommendations(at_risk, breached) ==
    (IF breached > 0 THEN <<"breached SLA - immediate action required">> ELSE <<>>)
    \o (IF at_risk > 5 THEN <<"tickets at risk - consider resource reallocation">>
        ELSE IF at_risk > 0 THEN <<"Monitor at-risk ticket(s)">> ELSE <<>>)
    \o (IF breached = 0 /\ at_risk = 0
        THEN <<"All tickets are on track - good performance!">> ELSE <<>>)

\* _empty_sla_response()
EmptySlaResponseAllClear ==
    [kind |-> "sla", at_risk_count |-> 0, breach_count |-> 0,
     at_risk_tickets |-> <<>>, breached_tickets |-> <<>>,
     sla_performance |-> [compliant |-> 0, breached |-> 0],
     recommendations |-> <<"No open tickets at risk">>]
EmptySlaResponse ==
    [kind |-> "sla", at_risk_count |-> 0, breach_count |-> 0,
     at_risk_tickets |-> <<>>, breached_tickets |-> <<>>,
     sla_performance |-> [compliant |-> 0, breached |-> 0],
     recommendations |-> <<>>]

\* The value predict_sla_breaches(df) returns when the clock reads `clock` and
\* the simulated compliance draws count `compliant` resolved tickets.
PredictSlaBreachesResult(rows, clock, compliant) ==
    IF rows = <<>> THEN EmptySlaResponse
    ELSE
    LET open == RowsWithStatus(rows, OpenStatuses)
    IN  IF open = <<>>
        THEN [kind |-> "sla", at_risk_count |-> 0, breach_count |-> 0,
              at_risk_tickets |-> <<>>, breached_tickets |-> <<>>,
              sla_performance |-> [compliant |-> 1000, breached |-> 0],
              recommendations |-> <<"No open tickets at risk">>]
        ELSE
        LET open_tickets == [i \in 1..Len(open) |-> SlaRow(open[i], clock)]
            breached == SelectSeq(open_tickets, IsBreached)
            at_risk == SelectSeq(open_tickets, IsAtRisk)
            resolved_tickets == RowsWithStatus(rows, ResolvedStatuses)
            at_risk_details == [i \in 1..Len(at_risk) |-> AtRiskDetail(at_risk[i])]
            breached_details == [i \in 1..Len(breached) |-> BreachedDetail(breached[i])]
            remaining == [i \in 1..Len(at_risk) |-> at_risk_details[i].hours_remaining]
            overdue == [i \in 1..Len(breached) |-> breached_details[i].hours_overdue]
        IN  [kind |-> "sla",
             at_risk_count |-> Len(at_risk),
             breach_count |-> Len(breached),
             at_risk_tickets |-> Reorder(at_risk_details, SortOrder(remaining, FALSE)),
             breached_tickets |-> Reorder(breached_details, SortOrder(overdue, TRUE)),
             sla_performance |-> CalculateSlaPerformance(resolved_tickets, compliant),
             recommendations |-> GenerateSlaRecommendations(Len(at_risk), Len(breached))]


(***************************************************************************)
(* analyze_department_performance and its helpers.                         *)
(***************************************************************************)
\* df_copy['category'].map(self.department_mapping).fillna('General')
department_mapping(c) ==
    CASE c = "Roads & Transportation" -> "Infrastructure"
      [] c = "Water & Sanitation" -> "Utilities"
      [] c = "Public Safety" -> "Safety"
      [] c = "Healthcare" -> "Health"
      [] c = "Education" -> "Education"
      [] c = "Environment" -> "Environment"
      [] c = "Street Lighting" -> "Infrastructure"
      [] c = "Waste Management" -> "Environment"
      [] c = "Parks & Recreation" -> "Environment"
      [] c = "Building Permits" -> "Administration"
      [] c = "Tax & Revenue" -> "Administration"
      [] c = "Other" -> "General"
      [] OTHER -> "General"

\* df_copy['department'].unique(): the departments in order of first appearance
DepartmentsOf(rows) ==
    LET first == SelectSeq([i \in 1..Len(rows) |-> i],
                     LAMBDA i : \A j \in 1..(i - 1) :
                         department_mapping(rows[j].category)
                             # department_mapping(rows[i].category))
    IN  [k \in 1..Len(first) |-> department_mapping(rows[first[k]].category)]

\* The keys of self.department_mapping
MappedCategories ==
    {"Roads & Transportation", "Water & Sanitation", "Public Safety", "Healthcare",
     "Education", "Environment", "Street Lighting", "Waste Management",
     "Parks & Recreation", "Building Permits", "Tax & Revenue", "Other"}

\* df_copy[df_copy['department'] == dept]
DepartmentRowsMappedOnly(rows, d) ==
    SelectSeq(rows, LAMBDA t : /\ t.category \in MappedCategories
                               /\ department_mapping(t.category) = d)
DepartmentRows(rows, d) ==
    SelectSeq(rows, LAMBDA t : department_mapping(t.category) = d)

CountSentiment(rows, s) == Len(SelectSeq(rows, LAMBDA t : t.sentiment = s))

\* _calculate_satisfaction_score(sentiment_dist): a fraction.  value_counts()
\* leaves a missing sentiment ("") out of the distribution.
CalculateSatisfactionScoreInflated(rows) ==
    LET positive == CountSentiment(rows, "Positive")
        neutral == CountSentiment(rows, "Neutral")
        negative == CountSentiment(rows, "Negative")
        total == positive + neutral + negative
    IN  IF total = 0 THEN <<50, 1>>
        ELSE FNorm(<<positive * 100 + neutral * 150, total>>)
CalculateSatisfactionScore(rows) ==
    LET positive == CountSentiment(rows, "Positive")
        neutral == CountSentiment(rows, "Neutral")
        negative == CountSentiment(rows, "Negative")
        total == positive + neutral + negative
    IN  IF total = 0 THEN <<50, 1>>
        ELSE FNorm(<<positive * 100 + neutral * 50 + negative * 0, total>>)

\* urgency_times.get(ticket.get('urgency', 'Medium'), 48), in hours
urgency_times(u) ==
    CASE u = "Critical" -> 6
      [] u = "High" -> 24
      [] u = "Medium" -> 48
      [] u = "Low" -> 96
      [] OTHER -> 48

\* _calculate_avg_response_time(dept_df), in hours: the mean of
\* base_time * (0.8 + np.random.random() * 0.4).  jitter[id] is that factor
\* for the ticket, in hundredths (80 up to, not including, 120).
CalculateAvgResponseTime(rows, jitter) ==
    IF rows = <<>> THEN <<0, 1>>
    ELSE FNorm(<<SumSeq([i \in 1..Len(rows) |->
                     urgency_times(rows[i].urgency) * jitter[rows[i].id]]),
                 100 * Len(rows)>>)

\* urgency_compliance.get(urgency, 0.85), in hundredths
urgency_compliance(u) ==
    CASE u = "Low" -> 95
      [] u = "Medium" -> 88
      [] u = "High" -> 75
      [] u = "Critical" -> 65
      [] OTHER -> 85

\* _calculate_dept_sla_compliance(dept_df): a percentage, as a fraction
CalculateDeptSlaCompliance(rows) ==
    LET resolved == RowsWithStatus(rows, ResolvedStatuses)
    IN  IF rows = <<>> THEN <<0, 1>>
        ELSE IF resolved = <<>> THEN <<50, 1>>
        ELSE FNorm(<<SumSeq([i \in 1..Len(resolved) |->
                         urgency_compliance(resolved[i].urgency)]),
                     Len(resolved)>>)

CalculateDeptTrendEarlySplit(rows) ==
    LET parsed == SelectSeq(rows, LAMBDA t : t.parsable)
        midpoint == (Len(parsed) + 1) \div 2
        recent_half == Len(parsed) - midpoint
        older_half == midpoint
    IN  IF Len(rows) < 2 \/ Len(parsed) < 2 THEN "stable"
        ELSE IF 100 * recent_half > 115 * older_half THEN "increasing"
        ELSE IF 100 * recent_half < 85 * older_half THEN "decreasing"
        ELSE "stable"

\* _calculate_dept_trend(dept_df): rows with an unparsable timestamp are
\* dropped, the rest split at len // 2 in row order.
CalculateDeptTrend(rows) ==
    LET parsed == SelectSeq(rows, LAMBDA t : t.parsable)
        midpoint == Len(parsed) \div 2
        recent_half == Len(parsed) - midpoint
        older_half == midpoint
    IN  IF Len(rows) < 2 \/ Len(parsed) < 2 THEN "stable"
        ELSE IF 100 * recent_half > 115 * older_half THEN "increasing"
        ELSE IF 100 * recent_half < 85 * older_half THEN "decreasing"
        ELSE "stable"

\* The composite metric: resolution_rate * 0.3 + satisfaction_score * 0.3 +
\* sla_compliance * 0.25 + (100 - min(avg_response_time / 24 * 10, 100)) * 0.15
PerformanceScore(resolution_rate, satisfaction_score, sla_compliance, avg_response_time) ==
    LET response == FSub(<<100, 1>>,
                         FMin(FDiv(FScale(10, avg_response_time), 24), <<100, 1>>))
    IN  FAdd(FAdd(FDiv(FScale(30, resolution_rate), 100),
                  FDiv(FScale(30, satisfaction_score), 100)),
             FAdd(FDiv(FScale(25, sla_compliance), 100),
                  FDiv(FScale(15, response), 100)))

\* One entry of department_metrics.
DepartmentMetric(rows, d, jitter) ==
    LET dept_data == DepartmentRows(rows, d)
        total == Len(dept_data)
        resolved == Len(RowsWithStatus(dept_data, ResolvedStatuses))
        resolution_rate == IF total > 0 THEN FNorm(<<resolved * 100, total>>) ELSE <<0, 1>>
        satisfaction_score == CalculateSatisfactionScore(dept_data)
        avg_response_time == CalculateAvgResponseTime(dept_data, jitter)
        sla_compliance == CalculateDeptSlaCompliance(dept_data)
        performance_score ==
            PerformanceScore(resolution_rate, satisfaction_score, sla_compliance,
                             avg_response_time)
    IN  [department |-> d,
         total_tickets |-> total,
         resolved_tickets |-> resolved,
         resolution_rate |-> Round1(resolution_rate),
         satisfaction_score |-> Round1(satisfaction_score),
         avg_response_time_hours |-> Round1(avg_response_time),
         sla_compliance |-> Round1(sla_compliance),
         performance_score |-> Round1(performance_score),
         trend |-> CalculateDeptTrend(dept_data)]

\* _empty_department_response()
EmptyDepartmentResponse ==
    [kind |-> "dept", department_metrics |-> <<>>,
     top_performer |-> "None", bottom_performer |-> "None"]

\* The value analyze_department_performance(df) returns under the draws jitter.
\* top_performer and bottom_performer are given by their department name.
AnalyzeDepartmentPerformanceResult(rows, jitter) ==
    IF rows = <<>> THEN EmptyDepartmentResponse
    ELSE
    LET depts == DepartmentsOf(rows)
        unsorted == [k \in 1..Len(depts) |-> DepartmentMetric(rows, depts[k], jitter)]
        scores == [k \in 1..Len(depts) |-> unsorted[k].performance_score]
        department_metrics == Reorder(unsorted, SortOrder(scores, TRUE))
    IN  [kind |-> "dept",
         department_metrics |-> department_metrics,
         top_performer |-> department_metrics[1].department,
         bottom_performer |->
             IF Len(department_metrics) > 1
             THEN department_metrics[Len(department_metrics)].department
             ELSE "None"]


(***************************************************************************)
(* analyze_geospatial_distribution.  A row carries the columns the         *)
(* hotspots are computed from: area ("" when missing), urgency, sentiment. *)
(***************************************************************************)
\* urgency_weights = {'Low': 1, 'Medium': 2, 'High': 3, 'Critical': 4}
urgency_weights == [Low |-> 1, Medium |-> 2, High |-> 3, Critical |-> 4]

\* NaN as a fraction, and as a reported (rounded) value.
NaN == <<0, 0>>
IsNaN(x) == x[2] = 0
ReportedNaN == -1

\* round(x, 2) of x = n/d >= 0, as a count of hundredths; round(nan, 2) is nan.
Round2(x) == IF IsNaN(x) THEN ReportedNaN ELSE Rounded(100 * x[1], x[2])

\* df_copy['area'].dropna().unique(): the areas in order of first appearance
AreasOf(rows) ==
    LET first == SelectSeq([i \in 1..Len(rows) |-> i],
                     LAMBDA i : /\ rows[i].area # ""
                                /\ \A j \in 1..(i - 1) : rows[j].area # rows[i].area)
    IN  [k \in 1..Len(first) |-> rows[first[k]].area]

\* df_copy[df_copy['area'] == area]
AreaRows(rows, a) == SelectSeq(rows, LAMBDA t : t.area = a)

\* area_data['urgency'].map(urgency_weights).mean(): an urgency outside the
\* table maps to NaN, which mean() skips; the mean of nothing is NaN.
AvgUrgency(area_data) ==
    LET mapped == SelectSeq(area_data, LAMBDA t : t.urgency \in DOMAIN urgency_weights)
    IN  IF mapped = <<>> THEN NaN
        ELSE FNorm(<<SumSeq([i \in 1..Len(mapped) |-> urgency_weights[mapped[i].urgency]]),
                     Len(mapped)>>)

\* (area_data['sentiment'] == 'Negative').sum() / len(area_data) * 100
NegPct(area_data) ==
    FNorm(<<100 * Len(SelectSeq(area_data, LAMBDA t : t.sentiment = "Negative")),
            Len(area_data)>>)

\* len(area_data) * avg_urgency * (1 + sentiment_score / 100)
HotspotScoreDiscounting(count, avg_urgency, sentiment_score) ==
    IF IsNaN(avg_urgency) THEN NaN
    ELSE FNorm(<<count * avg_urgency[1] * (100 * sentiment_score[2] - sentiment_score[1]),
                 avg_urgency[2] * 100 * sentiment_score[2]>>)
HotspotScore(count, avg_urgency, sentiment_score) ==
    IF IsNaN(avg_urgency) THEN NaN
    ELSE FNorm(<<count * avg_urgency[1] * (100 * sentiment_score[2] + sentiment_score[1]),
                 avg_urgency[2] * 100 * sentiment_score[2]>>)

\* One entry of location_hotspots.
Hotspot(rows, a) ==
    LET area_data == AreaRows(rows, a)
        avg_urgency == AvgUrgency(area_data)
        sentiment_score == NegPct(area_data)
        hotspot_score == HotspotScore(Len(area_data), avg_urgency, sentiment_score)
    IN  [area |-> a,
         count |-> Len(area_data),
         avg_urgency |-> Round2(avg_urgency),
         negative_sentiment_pct |-> Round1(sentiment_score),
         hotspot_score |-> Round2(hotspot_score)]

\* sorted(location_hotspots, key=hotspot_score, reverse=True): no comparison
\* with a NaN key holds, which leaves at most two entries in their order.
HotspotOrder(keys) ==
    IF \E k \in 1..Len(keys) : keys[k] = ReportedNaN
    THEN [k \in 1..Len(keys) |-> k]
    ELSE SortOrder(keys, TRUE)

\* _generate_geo_recommendations(hotspots), by the kind of each message
GenerateGeoRecommendations(hotspots) ==
    IF hotspots = <<>> THEN <<"No significant hotspots identified">>
    ELSE <<"Top hotspot">>
         \o (IF hotspots[1].negative_sentiment_pct > 600
             THEN <<"High negative sentiment">> ELSE <<>>)
         \o (IF Len(hotspots) >= 3 THEN <<"hotspots require focused intervention">> ELSE <<>>)

\* _empty_geo_response()
EmptyGeoResponse ==
    [kind |-> "geo", location_hotspots |-> <<>>, total_areas |-> 0,
     recommendations |-> <<>>]

\* The value analyze_geospatial_distribution(df) returns.
AnalyzeGeospatialDistributionResult(rows) ==
    IF rows = <<>> THEN EmptyGeoResponse
    ELSE
    LET areas == AreasOf(rows)
        unsorted == [k \in 1..Len(areas) |-> Hotspot(rows, areas[k])]
        sorted == Reorder(unsorted,
                      HotspotOrder([k \in 1..Len(areas) |-> unsorted[k].hotspot_score]))
        location_hotspots == SubSeq(sorted, 1, IF Len(sorted) < 10 THEN Len(sorted) ELSE 10)
    IN  [kind |-> "geo",
         location_hotspots |-> location_hotspots,
         total_areas |-> Len(areas),
         recommendations |-> GenerateGeoRecommendations(location_hotspots)]


(***************************************************************************)
(* calculate_trends and its helpers.  Day 0 is Monday 2024-01-01; a series  *)
(* is the sequence of its buckets, each with its label (the day the bucket  *)
(* ends on) and its count.                                                  *)
(***************************************************************************)
Day(ts) == ts \div Hours(24)

\* freq_map.get(period, 'W')
freq_map(period) ==
    CASE period = "daily" -> "D"
      [] period = "weekly" -> "W"
      [] period = "monthly" -> "M"
      [] OTHER -> "W"

\* The last day of January, February, March and April 2024.
MonthEnds == <<30, 59, 90, 120>>

\* The bucket resample(freq) puts a day in, counted from the first bucket of
\* 2024: the day itself, its week (Monday to Sunday) or its month.
BucketIndex(day, freq) ==
    CASE freq = "D" -> day
      [] freq = "W" -> day \div 7
      [] freq = "M" -> (CHOOSE m \in 1..Len(MonthEnds) :
                            /\ day <= MonthEnds[m]
                            /\ \A k \in 1..(m - 1) : day > MonthEnds[k]) - 1

\* The label of a bucket: the day itself, the Sunday that ends the week, or
\* the last day of the month.
BucketLabel(index, freq) ==
    CASE freq = "D" -> index
      [] freq = "W" -> 7 * index + 6
      [] freq = "M" -> MonthEnds[index + 1]

\* rows.resample(freq).size(): every bucket from the first ticket's to the
\* last ticket's, the empty ones counting 0.
Resample(rows, freq) ==
    IF rows = <<>> THEN <<>>
    ELSE
    LET buckets == [i \in 1..Len(rows) |-> BucketIndex(Day(rows[i].timestamp), freq)]
        lo == CHOOSE b \in {buckets[i] : i \in 1..Len(rows)} :
                  \A i \in 1..Len(rows) : b <= buckets[i]
        hi == CHOOSE b \in {buckets[i] : i \in 1..Len(rows)} :
                  \A i \in 1..Len(rows) : b >= buckets[i]
    IN  [k \in 1..(hi - lo + 1) |->
            [label |-> BucketLabel(lo + k - 1, freq),
             count |-> Cardinality({i \in 1..Len(rows) : buckets[i] = lo + k - 1})]]

\* _empty_trend_response()
EmptyTrendResponseGrowing ==
    [kind |-> "trends", period |-> "weekly", total_counts |-> <<>>,
     sentiment_trends |-> <<>>, category_trends |-> <<>>,
     growth_rate |-> <<100, 1>>, forecast |-> <<>>,
     summary |-> [text |-> "No data available for trend analysis"]]
EmptyTrendResponse ==
    [kind |-> "trends", period |-> "weekly", total_counts |-> <<>>,
     sentiment_trends |-> <<>>, category_trends |-> <<>>,
     growth_rate |-> <<0, 1>>, forecast |-> <<>>,
     summary |-> [text |-> "No data available for trend analysis"]]

\* _calculate_growth_rate(series): a percentage, as a fraction
CalculateGrowthRateOfFirst(series) ==
    IF Len(series) < 2 THEN <<0, 1>>
    ELSE LET recent == series[Len(series)].count
             previous == series[1].count
         IN  IF previous = 0 THEN (IF recent > 0 THEN <<100, 1>> ELSE <<0, 1>>)
             ELSE FNorm(<<(recent - previous) * 100, previous>>)
CalculateGrowthRate(series) ==
    IF Len(series) < 2 THEN <<0, 1>>
    ELSE LET recent == series[Len(series)].count
             previous == series[Len(series) - 1].count
         IN  IF previous = 0 THEN (IF recent > 0 THEN <<100, 1>> ELSE <<0, 1>>)
             ELSE FNorm(<<(recent - previous) * 100, previous>>)

\* _simple_forecast(series, periods): the index of a resampled series holds
\* Timestamps, so every label is last_date + freq * i, written as a date.
SimpleForecast(series, periods) ==
    IF Len(series) < 3 THEN <<>>
    ELSE
    LET n == Len(series)
        window == IF 3 < n THEN 3 ELSE n
        moving_avg == <<SumSeq([k \in 1..window |-> series[n - window + k].count]), window>>
        last_date == series[n].label
        freq == series[n].label - series[n - 1].label
    IN  [i \in 1..periods |->
            [period |-> last_date + freq * i,
             predicted_value |-> Rounded(moving_avg[1], moving_avg[2])]]

\* _generate_trend_summary(series, growth_rate): the direction, the growth
\* rate as '+.1f' formats it (signed tenths) and the average as '.0f' does.
GenerateTrendSummary(series, growth_rate) ==
    IF Len(series) = 0 THEN [text |-> "No data available"]
    ELSE [text |-> "Feedback volume is",
          trend_direction |->
              IF FLess(<<5, 1>>, growth_rate) THEN "increasing"
              ELSE IF FLess(growth_rate, <<-5, 1>>) THEN "decreasing"
              ELSE "stable",
          growth_rate |->
              IF growth_rate[1] < 0 THEN 0 - Round1(<<0 - growth_rate[1], growth_rate[2]>>)
              ELSE Round1(growth_rate),
          average |-> Rounded(SumSeq([k \in 1..Len(series) |-> series[k].count]),
                              Len(series))]

\* dict of one resampled series per value of a column: a sequence of
\* [key, series] in the order the values first appear.
TrendsBy(rows, column, freq) ==
    LET first == SelectSeq([i \in 1..Len(rows) |-> i],
                     LAMBDA i : /\ rows[i][column] # ""
                                /\ \A j \in 1..(i - 1) : rows[j][column] # rows[i][column])
    IN  [k \in 1..Len(first) |->
            [key |-> rows[first[k]][column],
             series |-> Resample(SelectSeq(rows,
                            LAMBDA t : t[column] = rows[first[k]][column]), freq)]]

\* The value calculate_trends(df, period) returns.
CalculateTrendsResult(rows, period) ==
    LET df_copy == SelectSeq(rows, LAMBDA t : t.parsable)
        freq == freq_map(period)
        total_counts == Resample(df_copy, freq)
        growth_rate == CalculateGrowthRate(total_counts)
    IN  IF rows = <<>> \/ df_copy = <<>> THEN EmptyTrendResponse
        ELSE [kind |-> "trends",
              period |-> period,
              total_counts |-> total_counts,
              sentiment_trends |-> TrendsBy(df_copy, "sentiment", freq),
              category_trends |-> TrendsBy(df_copy, "category", freq),
              growth_rate |-> growth_rate,
              forecast |-> SimpleForecast(total_counts, 4),
              summary |-> GenerateTrendSummary(total_counts, growth_rate)]


(***************************************************************************)
(* The caller's DataFrame and the engine's tables.  Every analyzer works   *)
(* on df.copy(): the columns it adds (sla_hours, department), the          *)
(* timestamps it converts and the index it sets are the copy's.            *)
(***************************************************************************)
\* self.sla_config and self.department_mapping as __init__ builds them
EngineTables ==
    [sla_config |-> [u \in SlaUrgencies |-> sla_config(u)],
     department_mapping |-> [c \in MappedCategories |-> department_mapping(c)]]

\* The caller's rows after calculate_trends(df)
FrameAfterTrends(rows) == rows

\* The caller's rows after predict_sla_breaches(df)
FrameAfterSlaPrediction(rows) == rows

\* The caller's rows after analyze_geospatial_distribution(df)
FrameAfterGeospatial(rows) == rows

\* The caller's rows after analyze_department_performance(df); written on
\* df itself, the department column would be the caller's.
FrameAfterDepartmentsInPlace(rows) ==
    [i \in 1..Len(rows) |->
        [f \in DOMAIN rows[i] \cup {"department"} |->
            IF f = "department" THEN department_mapping(rows[i].category)
            ELSE rows[i][f]]]
FrameAfterDepartments(rows) == rows


(***************************************************************************)
(* RecommendationEngine.  providers says how each component answers for    *)
(* the ticket at hand: mode "absent" (the component is None, or            *)
(* is_available() is False), "raises" (its call raises) or "returns" (its  *)
(* call returns the payload).  Confidences count hundredths, breach        *)
(* probabilities tenths.                                                   *)
(***************************************************************************)
Missing == [state |-> "missing"]
Failed == [state |-> "error"]

\* analyze_feedback_comprehensive, steps 1-5: analysis['analyses']
AnalysesOf(p) ==
    [nlp |->
        IF p.nlp.mode = "absent" THEN Missing
        ELSE IF p.nlp.mode = "raises" THEN Failed
        ELSE [state |-> "ok", sentiment |-> p.nlp.sentiment,
              category |-> p.nlp.category, text_length |-> p.nlp.text_length],
     priority_ml |->
        IF p.priority.mode = "absent" THEN Missing
        ELSE IF p.priority.mode = "raises" THEN Failed
        ELSE [state |-> "ok", predicted_priority |-> p.priority.predicted_priority,
              confidence |-> p.priority.confidence],
     sla_prediction |->
        IF p.sla.mode = "absent" THEN Missing
        ELSE IF p.sla.mode = "raises" THEN Failed
        ELSE [state |-> "ok", breach_probability |-> p.sla.breach_probability,
              confidence |-> p.sla.confidence],
     similar_feedback |->
        IF p.embeddings.mode = "absent" THEN Missing
        ELSE IF p.embeddings.mode = "raises" THEN Failed
        ELSE [state |-> "ok", count |-> p.embeddings.count],
     complex_classification |->
        IF p.openai.mode = "returns"
        THEN [state |-> "ok", suggested_department |-> p.openai.suggested_department]
        ELSE Missing]

\* analysis['confidence_scores'].values(), in insertion order: a bool counts
\* 1 (100) or 0 in the sum.
ConfidenceScores(p) ==
    (IF p.nlp.mode = "returns"
     THEN <<IF p.nlp.text_length > 10 THEN 100 ELSE 0>> ELSE <<>>)
    \o (IF p.priority.mode = "returns" THEN <<p.priority.confidence>> ELSE <<>>)
    \o (IF p.sla.mode = "returns" THEN <<p.sla.confidence>> ELSE <<>>)
    \o (IF p.embeddings.mode = "returns"
        THEN <<IF p.embeddings.count > 0 THEN 100 ELSE 0>> ELSE <<>>)
    \o (IF p.openai.mode = "returns" THEN <<100>> ELSE <<>>)

\* priority_map.get(ml_priority, 2)
priority_map(x) ==
    CASE x = "Low" -> 1
      [] x = "Medium" -> 2
      [] x = "High" -> 3
      [] x = "Critical" -> 4
      [] OTHER -> 2

\* .get('predicted_priority', 'Medium') of analyses['priority_ml'], which on an
\* error is {'error': ...} and has no such key
PredictedPriority(a) ==
    IF a.priority_ml.state = "ok" THEN a.priority_ml.predicted_priority ELSE "Medium"

\* priority_scores, in the order the votes are appended
PriorityScores(a) ==
    (IF a.priority_ml.state # "missing"
     THEN <<priority_map(PredictedPriority(a))>> ELSE <<>>)
    \o (IF a.nlp.state = "ok" /\ a.nlp.sentiment.shape = "str"
           /\ a.nlp.sentiment.label = "Negative" THEN <<3>>
        ELSE IF a.nlp.state = "ok" /\ a.nlp.sentiment.shape = "str"
           /\ a.nlp.sentiment.label = "Positive" THEN <<1>>
        ELSE <<>>)
    \o (IF a.sla_prediction.state = "ok" /\ a.sla_prediction.breach_probability > 7
        THEN <<4>>
        ELSE IF a.sla_prediction.state = "ok" /\ a.sla_prediction.breach_probability > 4
        THEN <<3>>
        ELSE <<>>)

\* "Calculate final priority": the default 'Medium' stays when nothing voted
PriorityLevel(scores) ==
    IF scores = <<>> THEN "Medium"
    ELSE IF 2 * SumSeq(scores) >= 7 * Len(scores) THEN "Critical"
    ELSE IF 2 * SumSeq(scores) >= 5 * Len(scores) THEN "High"
    ELSE IF 2 * SumSeq(scores) >= 3 * Len(scores) THEN "Medium"
    ELSE "Low"

UrgencyAction(scores) ==
    IF scores = <<>> THEN "Standard processing"
    ELSE IF 2 * SumSeq(scores) >= 7 * Len(scores) THEN "Immediate attention required"
    ELSE IF 2 * SumSeq(scores) >= 5 * Len(scores) THEN "Expedited processing"
    ELSE "Standard processing"

RiskLevel(a) ==
    IF a.sla_prediction.state = "ok" /\ a.sla_prediction.breach_probability > 7
    THEN "High"
    ELSE IF a.sla_prediction.state = "ok" /\ a.sla_prediction.breach_probability > 4
    THEN "Medium"
    ELSE "Low"

\* category_dept_map
category_dept_map(c) ==
    CASE c = "Infrastructure" -> "Public Works"
      [] c = "Transportation" -> "Transportation"
      [] c = "Healthcare" -> "Health Department"
      [] c = "Education" -> "Education Department"
      [] c = "Environment" -> "Environmental Services"
      [] c = "Safety" -> "Public Safety"
      [] c = "Utilities" -> "Public Utilities"
      [] c = "Housing" -> "Housing Authority"
      [] OTHER -> ""

\* departments: the set built from the LLM's suggestion and the category map
Departments(a) ==
    (IF a.complex_classification.state = "ok"
        /\ a.complex_classification.suggested_department # ""
     THEN {a.complex_classification.suggested_department} ELSE {})
    \cup (IF a.nlp.state = "ok" /\ category_dept_map(a.nlp.category) # ""
          THEN {category_dept_map(a.nlp.category)} ELSE {})

\* list(departments): a set of str iterates in an order that depends on the
\* interpreter's hash seed, so every enumeration of the set is possible.
DepartmentListings(d) ==
    {l \in [1..Cardinality(d) -> d] : \A i, j \in 1..Cardinality(d) : l[i] = l[j] => i = j}

\* time_estimates.get(urgency, '3-5 business days')
time_estimates(x) ==
    CASE x = "Critical" -> "1-2 business days"
      [] x = "High" -> "2-3 business days"
      [] x = "Medium" -> "3-5 business days"
      [] x = "Low" -> "1-2 weeks"
      [] OTHER -> "3-5 business days"

\* "Resolution time estimation": keyed by analyses.priority_ml.predicted_priority
EstimatedResolutionTime(a) == time_estimates(PredictedPriority(a))

\* len(analysis['analyses']['similar_feedback']): on an error the entry is the
\* dict {'error': ...}, of length 1
SimilarCount(a) ==
    IF a.similar_feedback.state = "ok" THEN a.similar_feedback.count
    ELSE IF a.similar_feedback.state = "error" THEN 1
    ELSE 0

ActionItems(a, priority_level, risk_level) ==
    (IF priority_level \in {"Critical", "High"}
     THEN <<"Assign dedicated staff immediately", "Schedule follow-up within 24 hours">>
     ELSE <<>>)
    \o (IF risk_level = "High"
        THEN <<"Monitor SLA compliance closely", "Prepare escalation procedures">>
        ELSE <<>>)
    \o (IF SimilarCount(a) > 2
        THEN <<"Review similar cases for systemic issues">> ELSE <<>>)

\* "Confidence level": the mean of confidence_scores' values, 0.5 when empty
ConfidenceLevelInclusive(scores) ==
    LET avg == IF scores = <<>> THEN <<50, 1>> ELSE <<SumSeq(scores), Len(scores)>>
    IN  IF FLeq(<<80, 1>>, avg) THEN "High"
        ELSE IF FLeq(<<60, 1>>, avg) THEN "Medium"
        ELSE "Low"
ConfidenceLevel(scores) ==
    LET avg == IF scores = <<>> THEN <<50, 1>> ELSE <<SumSeq(scores), Len(scores)>>
    IN  IF FLess(<<80, 1>>, avg) THEN "High"
        ELSE IF FLess(<<60, 1>>, avg) THEN "Medium"
        ELSE "Low"

\* _generate_unified_recommendations(analysis), with department_suggestions
\* listed in the order `listing`
GenerateUnifiedRecommendations(a, confidence_scores, listing) ==
    LET scores == PriorityScores(a)
        priority_level == PriorityLevel(scores)
        risk_level == RiskLevel(a)
    IN  [priority_level |-> priority_level,
         urgency_action |-> UrgencyAction(scores),
         department_suggestions |-> listing,
         estimated_resolution_time |-> EstimatedResolutionTime(a),
         action_items |-> ActionItems(a, priority_level, risk_level),
         risk_level |-> risk_level,
         similar_cases |-> SimilarCount(a),
         confidence_level |-> ConfidenceLevel(confidence_scores)]

\* The value analyze_feedback_comprehensive(feedback_data) returns.
AnalyzeFeedbackComprehensiveResult(p, listing) ==
    [kind |-> "analysis",
     analyses |-> AnalysesOf(p),
     confidence_scores |-> ConfidenceScores(p),
     recommendations |->
         GenerateUnifiedRecommendations(AnalysesOf(p), ConfidenceScores(p), listing)]


(***************************************************************************)
(* Inputs.  The instants at which the clock is sampled: for every SLA      *)
(* target T the instants at which a ticket created at 0 has exactly 20% of *)
(* T left, one tick less, nothing left, and is one tick overdue; and a     *)
(* few instants in between.                                                *)
(***************************************************************************)
ClockSamples ==
    {0, Hours(1), Hours(5), Hours(10), Hours(48)}
    \cup UNION {{12 * sla_config(u), 12 * sla_config(u) + 1,
                 15 * sla_config(u), 15 * sla_config(u) + 1} : u \in SlaUrgencies}

NextSample(t) == CHOOSE s \in ClockSamples : s > t /\ \A x \in ClockSamples : x > t => s <= x

\* The citizen form's "How urgent is this?" slider, lowest first.
UrgencyOptions == <<"Low", "Medium", "High", "Emergency">>

(***************************************************************************)
(* The citizen portal: one script run is render_sidebar, then the page it  *)
(* returned.  None stands for Python's None and for a key not yet set,     *)
(* which the code reads alike.                                             *)
(***************************************************************************)
None == "None"

\* st.session_state with the given keys assigned
Assigned(s, updates) ==
    [f \in DOMAIN s |-> IF f \in DOMAIN updates THEN updates[f] ELSE s[f]]

\* init_session_state(), and the keys render_sidebar and the pages add
InitialSession ==
    [menu_selection |-> "Home", menu_index |-> 0, current_page |-> "home",
     stay_on_page |-> FALSE, success_shown |-> FALSE, n8n_success |-> FALSE,
     submission_in_progress |-> FALSE, menu_changed |-> FALSE, nav_to |-> None,
     last_tracking_id |-> None, last_email |-> None, submitted_ids |-> <<>>]

options_list == <<"Home", "Submit Feedback", "Track Status", "Announcements", "Help & FAQs">>

\* options_list.index(selection)
OptionIndex(selection) ==
    (CHOOSE i \in DOMAIN options_list : options_list[i] = selection) - 1

page_mapping(selection) ==
    CASE selection = "Home" -> "Home"
      [] selection = "Submit Feedback" -> "Submit Feedback"
      [] selection = "Track Status" -> "Track My Feedback"
      [] selection = "Announcements" -> "Public Announcements"
      [] selection = "Help & FAQs" -> "Help & FAQs"

key_mapping(selection) ==
    CASE selection = "Home" -> "home"
      [] selection = "Submit Feedback" -> "submit"
      [] selection = "Track Status" -> "track"
      [] selection = "Announcements" -> "announcements"
      [] selection = "Help & FAQs" -> "favorites"

NavTargets == {"home", "submit", "track", "announce"}

\* "Align menu selection/index with target"
NavSelection(target) ==
    CASE target = "home" -> "Home"
      [] target = "submit" -> "Submit Feedback"
      [] target = "track" -> "Track Status"
      [] target = "announce" -> "Announcements"

nav_mapping(target) ==
    CASE target = "home" -> "Home"
      [] target = "submit" -> "Submit Feedback"
      [] target = "track" -> "Track My Feedback"
      [] target = "announce" -> "Public Announcements"

\* The success state the sidebar and the success panel's buttons clear
ClearedSuccess ==
    [stay_on_page |-> FALSE, success_shown |-> FALSE, last_tracking_id |-> None,
     last_email |-> None, n8n_success |-> FALSE]

\* "Normal menu change detection", with selected the value option_menu returned
MenuChangeDetected(s, selected) ==
    IF s.current_page = "submit" /\ s.submission_in_progress /\ selected # "Submit Feedback"
    THEN Assigned(s, [menu_changed |-> FALSE])
    ELSE IF selected # s.menu_selection /\ s.nav_to = None
    THEN Assigned(s, [menu_changed |-> TRUE])
    ELSE Assigned(s, [menu_changed |-> FALSE])

\* "Process nav_to BEFORE menu_changed": the session after the navigation
NavToProcessed(s) ==
    Assigned(Assigned(s, ClearedSuccess),
             [nav_to |-> None, menu_changed |-> FALSE, submission_in_progress |-> FALSE,
              menu_selection |-> NavSelection(s.nav_to),
              menu_index |-> OptionIndex(NavSelection(s.nav_to))])

\* "Check if menu selection changed"
MenuChangeHandledKeepingId(s) ==
    IF ~s.menu_changed THEN s
    ELSE IF s.submission_in_progress THEN Assigned(s, [menu_changed |-> FALSE])
    ELSE Assigned(s, [menu_changed |-> FALSE, stay_on_page |-> FALSE, last_email |-> None,
                      n8n_success |-> FALSE, success_shown |-> FALSE])
MenuChangeHandled(s) ==
    IF ~s.menu_changed THEN s
    ELSE IF s.submission_in_progress THEN Assigned(s, [menu_changed |-> FALSE])
    ELSE Assigned(Assigned(s, ClearedSuccess), [menu_changed |-> FALSE])

\* "Update session state - save the selection and index", current_page
SelectionSaved(s, selected) ==
    LET kept == s.current_page = "submit" /\ s.submission_in_progress
                /\ selected # "Submit Feedback"
        selection == IF kept THEN s.menu_selection ELSE selected
    IN  Assigned(s, [menu_selection |-> selection, menu_index |-> OptionIndex(selection),
                     current_page |-> key_mapping(selection)])

\* render_sidebar(): the session it leaves and the page it returns
RenderSidebarResult(s, selected) ==
    IF s.current_page = "submit" /\ s.submission_in_progress
    THEN [session |-> Assigned(s, [menu_selection |-> "Submit Feedback", menu_index |-> 1,
                                   menu_changed |-> FALSE, current_page |-> "submit"]),
          page |-> "Submit Feedback"]
    ELSE LET detected == MenuChangeDetected(s, selected)
         IN  IF detected.nav_to # None /\ ~detected.stay_on_page
             THEN [session |-> NavToProcessed(detected), page |-> nav_mapping(detected.nav_to)]
             ELSE LET saved == SelectionSaved(MenuChangeHandled(detected), selected)
                  IN  [session |-> saved, page |-> page_mapping(saved.menu_selection)]

\* render_submit_page(), on arrival: the flag is reset
ArrivedAtSubmitPage(s) == Assigned(s, [submission_in_progress |-> FALSE])

\* "if submitted:" up to the validation
SubmissionStarted(s) == Assigned(s, [submission_in_progress |-> TRUE, nav_to |-> None])

\* A required field or the consent is missing
SubmissionRejected(s) == Assigned(s, [submission_in_progress |-> FALSE])

\* The entry was saved; webhook is what send_feedback_submitted did
SubmissionStoredLeavingFlag(s, tracking_id, email, webhook) ==
    Assigned(s, [submitted_ids |-> Append(s.submitted_ids, tracking_id),
                 stay_on_page |-> TRUE, success_shown |-> FALSE,
                 menu_selection |-> "Submit Feedback", menu_index |-> 1,
                 last_tracking_id |-> tracking_id, last_email |-> email,
                 n8n_success |-> (webhook = "sent")])
SubmissionStored(s, tracking_id, email, webhook) ==
    Assigned(s, [submitted_ids |-> Append(s.submitted_ids, tracking_id),
                 stay_on_page |-> TRUE, success_shown |-> FALSE,
                 menu_selection |-> "Submit Feedback", menu_index |-> 1,
                 last_tracking_id |-> tracking_id, last_email |-> email,
                 n8n_success |-> (webhook = "sent"),
                 submission_in_progress |-> FALSE])

\* Analysing or saving raised
SubmissionFailed(s) == Assigned(s, [stay_on_page |-> FALSE, submission_in_progress |-> FALSE])

\* "Show success message below the form if just submitted", with the button
\* of the panel the citizen pressed, if any
SuccessPanel(s, click) ==
    IF ~s.stay_on_page THEN s
    ELSE LET shown == Assigned(s, [success_shown |-> TRUE])
         IN  CASE click = "none" -> shown
               [] click = "submit_another" -> Assigned(shown, ClearedSuccess)
               [] click = "track_from_success" ->
                      Assigned(Assigned(shown, ClearedSuccess), [nav_to |-> "track"])
               [] click = "home_from_success" ->
                      Assigned(Assigned(shown, ClearedSuccess), [nav_to |-> "home"])

\* What the citizen's browser and the services can bring to a run.
PanelClicks == {"none", "submit_another", "track_from_success", "home_from_success"}
HomeClicks == {"none", "submit", "track", "announce"}
TrackingIds == {"3F2A9C1B", "7D4E0A55"}
Emails == {"citizen@example.org"}
WebhookOutcomes == {"sent", "not sent", "raises"}
RejectionReasons == {"required field", "consent"}

(***************************************************************************)
(* The admin portal: the review panel's Save Changes, the priority queue's *)
(* buttons and the assignments page, over DataManager.update_feedback.     *)
(***************************************************************************)
\* DataManager.update_feedback(feedback_id, updates): sets the given fields
\* of the stored item.
UpdateFeedback(items, id, updates) ==
    [i \in DOMAIN items |->
        IF i = id
        THEN [f \in DOMAIN items[i] |-> IF f \in DOMAIN updates THEN updates[f] ELSE items[i][f]]
        ELSE items[i]]

\* DataManager.update_status(feedback_id, new_status)
UpdateStatus(items, id, new_status) == UpdateFeedback(items, id, [status |-> new_status])

\* The Save Changes workflow validation: In Progress, Resolved or Closed only
\* with a staff member selected.
SaveAllowed(new_status, assigned) ==
    ~(new_status \in {"In Progress", "Resolved", "Closed"}
      /\ (assigned = "" \/ assigned = "None"))

\* render_priority_queue's urgent_df: urgent or high-priority items that are
\* not Resolved or Closed.
InPriorityQueue(item) ==
    /\ item.urgency \in {"High", "Emergency"} \/ item.priority \in {"High", "Critical"}
    /\ item.status \notin {"Resolved", "Closed"}

\* The stored items as the citizen form leaves them (status New, nobody
\* assigned), and what the admin can pick in the review panel.
StaffNames == {"John Anderson"}
ItemAttrs == [urgency : {"Low", "High"}]
StoredItems(f) ==
    [i \in DOMAIN f |->
        [id |-> i, status |-> "New", priority |-> "Normal", assigned_to |-> "",
         urgency |-> f[i].urgency]]
PriorityOptions == {"Normal", "High"}

\* Collections of at most MaxTickets tickets whose attributes come from attrs;
\* the id of a ticket is its row number.
Collections(attrs) == UNION {[1..n -> attrs] : n \in 0..MaxTickets}

\* Tickets created at instant 0; a Resolved or Closed one was resolved at once.
SlaAttrs == [urgency : Urgencies, status : Statuses]
SlaCollection(f) ==
    [i \in DOMAIN f |-> Ticket(i, 0, f[i].status, f[i].urgency, "Other", "Neutral", 0)]

\* Open tickets created an hour apart, in any row order.
AgeAttrs == [urgency : {"Critical", "High"}, timestamp : {0, Hours(1)}]
AgeCollection(f) ==
    [i \in DOMAIN f |-> Ticket(i, f[i].timestamp, "New", f[i].urgency, "Other", "Neutral", 0)]

\* Tickets created at instant 0 and, when Resolved or Closed, resolved 3 hours
\* (within every SLA target) or 200 hours (beyond every target) later; they
\* are evaluated at instant 200 hours.
ResolutionAttrs ==
    [urgency : Urgencies, status : {"New"}, updated_at : {0}]
    \cup [urgency : Urgencies, status : ResolvedStatuses,
          updated_at : {Hours(3), Hours(200)}]
ResolutionCollection(f) ==
    [i \in DOMAIN f |->
        Ticket(i, 0, f[i].status, f[i].urgency, "Other", "Neutral", f[i].updated_at)]

\* Tickets of two departments ("Housing" is no key of department_mapping), with
\* every sentiment or none.
DeptAttrs ==
    [category : {"Roads & Transportation", "Housing"},
     sentiment : {"Positive", "Neutral", "Negative", ""},
     status : {"New", "Resolved"},
     urgency : {"Critical", "Low"}]
DeptCollection(f) ==
    [i \in DOMAIN f |->
        Ticket(i, 0, f[i].status, f[i].urgency, f[i].category, f[i].sentiment, 0)]

\* Tickets of two departments created on two days, in any row order, some with
\* a timestamp pd.to_datetime cannot read.
TrendAttrs ==
    [category : {"Roads & Transportation", "Housing"},
     timestamp : {0, Hours(24)},
     parsable : BOOLEAN]
TrendCollections == UNION {[1..n -> TrendAttrs] : n \in 0..MaxDeptTickets}
TrendCollection(f) ==
    [i \in DOMAIN f |->
        [Ticket(i, f[i].timestamp, "New", "Low", f[i].category, "", 0)
            EXCEPT !.parsable = f[i].parsable]]

\* Rows of two areas, with an urgency outside urgency_weights among them.
GeoAttrs ==
    [area : {"North", "South"},
     urgency : {"Low", "Critical", "Emergency"},
     sentiment : {"Negative", "Neutral"}]
GeoCollections == UNION {[1..n -> GeoAttrs] : n \in 0..MaxGeoTickets}
GeoCollection(f) ==
    [i \in DOMAIN f |->
        [id |-> i, area |-> f[i].area, urgency |-> f[i].urgency,
         sentiment |-> f[i].sentiment]]

\* Tickets created on a few days of three months, some with a timestamp
\* pd.to_datetime cannot read, and the period the caller asks for.
TrendDays == {0, 7, 14, 35, 70}
TrendsAttrs ==
    [day : TrendDays, parsable : {TRUE}, sentiment : {"Negative", "Positive"}]
    \cup [day : {0}, parsable : {FALSE}, sentiment : {"Negative", "Positive"}]
TrendsCollections == UNION {[1..n -> TrendsAttrs] : n \in 0..MaxTrendTickets}
TrendsCollection(f) ==
    [i \in DOMAIN f |->
        [Ticket(i, Hours(24 * f[i].day), "New", "Medium", "Other", f[i].sentiment, 0)
            EXCEPT !.parsable = f[i].parsable]]
Periods == {"daily", "weekly", "monthly"}

\* Rows with every column the four analyzers read, some with a timestamp
\* pd.to_datetime cannot read.
SnapshotAttrs ==
    [status : {"New", "Resolved"}, parsable : BOOLEAN,
     category : {"Roads & Transportation", "Housing"}]
SnapshotCollection(f) ==
    [i \in DOMAIN f |->
        [id |-> i, timestamp |-> 0, parsable |-> f[i].parsable,
         status |-> f[i].status, urgency |-> "High", category |-> f[i].category,
         sentiment |-> "Negative", updated_at |-> 0, area |-> "North"]]

\* 0.8 + np.random.random() * 0.4, in hundredths: the least value and one
\* close to the bound it never reaches.
Jitters == {80, 119}

\* What the components may answer.  The NLP analyzer's sentiment is either a
\* label (shape "str") or the dictionary analyze_sentiment_advanced returns
\* (shape "dict").
NlpAnswers ==
    [mode : {"absent", "raises"}]
    \cup [mode : {"returns"},
          sentiment : [shape : {"str"}, label : {"Negative", "Neutral", "Positive"}]
                      \cup [shape : {"dict"}, label : {"Negative"}],
          category : {"Healthcare", "General"},
          text_length : {5, 20}]
PriorityAnswers ==
    [mode : {"absent", "raises"}]
    \cup [mode : {"returns"},
          predicted_priority : {"Low", "Medium", "High", "Critical"},
          confidence : {50, 100}]
SlaAnswers ==
    [mode : {"absent", "raises"}]
    \cup [mode : {"returns"},
          breach_probability : {3, 5, 7, 9},
          confidence : {0, 75}]
EmbeddingAnswers ==
    [mode : {"absent", "raises"}] \cup [mode : {"returns"}, count : {0, 3}]
OpenAIAnswers ==
    [mode : {"absent", "raises"}]
    \cup [mode : {"returns"}, suggested_department : {"", "Water Board"}]

\* self.ml serves both the priority and the SLA prediction: it is there for
\* both or for neither.
ProviderSettings ==
    {p \in [nlp : NlpAnswers, priority : PriorityAnswers, sla : SlaAnswers,
            embeddings : EmbeddingAnswers, openai : OpenAIAnswers] :
        (p.priority.mode = "absent") <=> (p.sla.mode = "absent")}

NoProviders ==
    [nlp |-> [mode |-> "absent"], priority |-> [mode |-> "absent"],
     sla |-> [mode |-> "absent"], embeddings |-> [mode |-> "absent"],
     openai |-> [mode |-> "absent"]]

(***************************************************************************)
(* Initial states: one per subsystem, the other subsystems idle.           *)
(***************************************************************************)
Idle ==
    /\ sla = NoResult
    /\ breach = NoResult
    /\ dept = NoResult
    /\ providers = NoProviders
    /\ rec = NoResult
    /\ second = NoResult
    /\ geo = NoResult
    /\ trends = NoResult
    /\ engine = EngineTables
    /\ store = <<>>
    /\ session = NoResult
    /\ script = NoResult

Init ==
    /\ df \in {SlaCollection(f) : f \in Collections(SlaAttrs)}
    /\ now = 0
    /\ Idle

InitAges ==
    /\ df \in {AgeCollection(f) : f \in Collections(AgeAttrs)}
    /\ now = Hours(1)
    /\ Idle

InitResolution ==
    /\ df \in {ResolutionCollection(f) : f \in Collections(ResolutionAttrs)}
    /\ now = Hours(200)
    /\ Idle

InitDept ==
    /\ df \in {DeptCollection(f) : f \in Collections(DeptAttrs)}
    /\ now = 0
    /\ Idle

InitDeptTrend ==
    /\ df \in {TrendCollection(f) : f \in TrendCollections}
    /\ now = 0
    /\ Idle

InitGeo ==
    /\ df \in {GeoCollection(f) : f \in GeoCollections}
    /\ now = 0
    /\ Idle

InitTrends ==
    /\ df \in {TrendsCollection(f) : f \in TrendsCollections}
    /\ now = 0
    /\ Idle

InitAnalyzers ==
    /\ df \in {SnapshotCollection(f) : f \in Collections(SnapshotAttrs)}
    /\ now = Hours(20)
    /\ Idle

\* Nothing has been submitted yet.
InitSubmit ==
    /\ df = <<>>
    /\ now = 0
    /\ Idle

\* A fresh browser session, before its first script run.
InitPortal ==
    /\ df = <<>>
    /\ now = 0
    /\ sla = NoResult
    /\ breach = NoResult
    /\ dept = NoResult
    /\ providers = NoProviders
    /\ rec = NoResult
    /\ second = NoResult
    /\ geo = NoResult
    /\ trends = NoResult
    /\ engine = EngineTables
    /\ store = <<>>
    /\ session = InitialSession
    /\ script = [pc |-> "render_sidebar", page |-> "Home"]

InitAdmin ==
    /\ df = <<>>
    /\ now = 0
    /\ sla = NoResult
    /\ breach = NoResult
    /\ dept = NoResult
    /\ providers = NoProviders
    /\ rec = NoResult
    /\ second = NoResult
    /\ geo = NoResult
    /\ trends = NoResult
    /\ engine = EngineTables
    /\ store \in {StoredItems(f) : f \in [1..MaxItems -> ItemAttrs]}
    /\ session = NoResult
    /\ script = NoResult

\* A ticket of each urgency at the moment it is created.
BreachRow(u, elapsed) ==
    LET r == SlaRow(Ticket(1, 0, "New", u, "Other", "Neutral", 0), elapsed)
    IN  [kind |-> "row", urgency |-> r.urgency, sla_hours |-> r.sla_hours,
         hours_elapsed |-> r.hours_elapsed, hours_remaining |-> r.hours_remaining,
         probability |-> CalculateBreachProbability(r)]

InitBreach ==
    /\ df = <<>>
    /\ now = 0
    /\ sla = NoResult
    /\ breach \in {BreachRow(u, 0) : u \in Urgencies}
    /\ dept = NoResult
    /\ providers = NoProviders
    /\ rec = NoResult
    /\ second = NoResult
    /\ geo = NoResult
    /\ trends = NoResult
    /\ engine = EngineTables
    /\ store = <<>>
    /\ session = NoResult
    /\ script = NoResult

InitRec ==
    /\ df = <<>>
    /\ now = 0
    /\ sla = NoResult
    /\ breach = NoResult
    /\ dept = NoResult
    /\ providers \in ProviderSettings
    /\ rec = NoResult
    /\ second = NoResult
    /\ geo = NoResult
    /\ trends = NoResult
    /\ engine = EngineTables
    /\ store = <<>>
    /\ session = NoResult
    /\ script = NoResult

(***************************************************************************)
(* Actions.                                                                *)
(***************************************************************************)
\* predict_sla_breaches(df): reads the clock, draws the simulated compliance.
PredictSlaBreaches ==
    /\ \E compliant \in 0..Len(RowsWithStatus(df, ResolvedStatuses)) :
           sla' = PredictSlaBreachesResult(df, now, compliant)
    /\ df' = FrameAfterSlaPrediction(df)
    /\ UNCHANGED <<now, breach, dept, providers, rec, second, geo, trends, engine, store, session, script>>

\* Time passes until the next sampled instant; the dashboard's script run has
\* ended and its result is gone.
Tick ==
    /\ \E s \in ClockSamples : s > now
    /\ now' = NextSample(now)
    /\ sla' = NoResult
    /\ UNCHANGED <<df, breach, dept, providers, rec, second, geo, trends, engine, store, session, script>>

\* _calculate_breach_probability on the same ticket, later.
Elapse ==
    /\ breach # NoResult
    /\ \E e \in ClockSamples :
           /\ e > breach.hours_elapsed
           /\ breach' = BreachRow(breach.urgency, e)
    /\ UNCHANGED <<df, now, sla, dept, providers, rec, second, geo, trends, engine, store, session, script>>

\* analyze_department_performance(df): draws a response-time jitter per ticket.
AnalyzeDepartmentPerformance ==
    /\ \E jitter \in [1..Len(df) -> Jitters] :
           dept' = AnalyzeDepartmentPerformanceResult(df, jitter)
    /\ df' = FrameAfterDepartments(df)
    /\ UNCHANGED <<now, sla, breach, providers, rec, second, geo, trends, engine, store, session, script>>

\* analyze_geospatial_distribution(df)
AnalyzeGeospatialDistribution ==
    /\ geo' = AnalyzeGeospatialDistributionResult(df)
    /\ df' = FrameAfterGeospatial(df)
    /\ UNCHANGED <<now, sla, breach, dept, providers, rec, second, trends, engine, store, session, script>>

\* calculate_trends(df, period)
CalculateTrends ==
    /\ \E period \in Periods : trends' = CalculateTrendsResult(df, period)
    /\ df' = FrameAfterTrends(df)
    /\ UNCHANGED <<now, sla, breach, dept, providers, rec, second, geo, engine, store, session, script>>

\* The citizen form's Submit: the entry is stored with the urgency the
\* citizen selected, status New and the current time.
SubmitFeedback ==
    /\ Len(df) < MaxTickets
    /\ \E k \in DOMAIN UrgencyOptions :
           df' = Append(df, Ticket(Len(df) + 1, now, "New", UrgencyOptions[k],
                                   "Other", "Neutral", now))
    /\ UNCHANGED <<now, sla, breach, dept, providers, rec, second, geo, trends, engine, store, session, script>>

\* main(): a script run starts with render_sidebar; selected is what the
\* option_menu widget returns in this run.
RenderSidebar ==
    /\ script.pc = "render_sidebar"
    /\ \E selected \in {options_list[i] : i \in DOMAIN options_list} :
           LET result == RenderSidebarResult(session, selected)
           IN  /\ session' = result.session
               /\ script' = [pc |-> "render_page", page |-> result.page]
    /\ UNCHANGED <<df, now, sla, breach, dept, providers, rec, second, geo, trends, engine, store>>

\* render_home_page(): one of the three buttons may have been pressed.
RenderHomePage ==
    /\ script.pc = "render_page"
    /\ script.page = "Home"
    /\ \E click \in HomeClicks :
           session' = IF click = "none" THEN session ELSE Assigned(session, [nav_to |-> click])
    /\ script' = [script EXCEPT !.pc = "render_sidebar"]
    /\ UNCHANGED <<df, now, sla, breach, dept, providers, rec, second, geo, trends, engine, store>>

\* render_track_page(), render_announcements_page(), render_help_page()
RenderOtherPage ==
    /\ script.pc = "render_page"
    /\ script.page \in {"Track My Feedback", "Public Announcements", "Help & FAQs"}
    /\ script' = [script EXCEPT !.pc = "render_sidebar"]
    /\ UNCHANGED session
    /\ UNCHANGED <<df, now, sla, breach, dept, providers, rec, second, geo, trends, engine, store>>

\* render_submit_page() with the form not submitted: the form and, after a
\* success, the panel with its buttons.
RenderSubmitPage ==
    /\ script.pc = "render_page"
    /\ script.page = "Submit Feedback"
    /\ \E click \in PanelClicks :
           /\ click # "none" => session.stay_on_page
           /\ session' = SuccessPanel(ArrivedAtSubmitPage(session), click)
    /\ script' = [script EXCEPT !.pc = "render_sidebar"]
    /\ UNCHANGED <<df, now, sla, breach, dept, providers, rec, second, geo, trends, engine, store>>

\* render_submit_page() with the form submitted, up to the validation.
SubmitPressed ==
    /\ script.pc = "render_page"
    /\ script.page = "Submit Feedback"
    /\ session' = SubmissionStarted(ArrivedAtSubmitPage(session))
    /\ script' = [script EXCEPT !.pc = "submitted"]
    /\ UNCHANGED <<df, now, sla, breach, dept, providers, rec, second, geo, trends, engine, store>>

\* The validation fails; the run goes on to the end of the page.
RejectSubmission ==
    /\ script.pc = "submitted"
    /\ \E reason \in RejectionReasons :
           session' = SuccessPanel(SubmissionRejected(session), "none")
    /\ script' = [script EXCEPT !.pc = "render_sidebar"]
    /\ UNCHANGED <<df, now, sla, breach, dept, providers, rec, second, geo, trends, engine, store>>

\* The entry is analysed and saved, the webhook called; st.rerun().
StoreSubmission ==
    /\ script.pc = "submitted"
    /\ Len(session.submitted_ids) < MaxSubmissions
    /\ \E tracking_id \in TrackingIds, email \in Emails, webhook \in WebhookOutcomes :
           session' = SubmissionStored(session, tracking_id, email, webhook)
    /\ script' = [script EXCEPT !.pc = "render_sidebar"]
    /\ UNCHANGED <<df, now, sla, breach, dept, providers, rec, second, geo, trends, engine, store>>

\* Analysing or saving raises; the run goes on to the end of the page.
FailSubmission ==
    /\ script.pc = "submitted"
    /\ session' = SuccessPanel(SubmissionFailed(session), "none")
    /\ script' = [script EXCEPT !.pc = "render_sidebar"]
    /\ UNCHANGED <<df, now, sla, breach, dept, providers, rec, second, geo, trends, engine, store>>

\* The review panel's Save Changes on one item, with the admin's choices.
SaveChanges ==
    /\ \E id \in DOMAIN store, new_status \in Statuses, new_priority \in PriorityOptions,
          assigned \in StaffNames \cup {""} :
           IF SaveAllowed(new_status, assigned)
           THEN store' = UpdateFeedback(store, id,
                             [status |-> new_status, priority |-> new_priority,
                              assigned_to |-> assigned])
           ELSE store' = store
    /\ UNCHANGED <<df, now, sla, breach, dept, providers, rec, second, geo, trends, engine, session, script>>

\* The priority queue's Mark In Review, Mark In Progress and Mark Resolved.
MarkInReview ==
    /\ \E id \in DOMAIN store :
           /\ InPriorityQueue(store[id])
           /\ store' = UpdateStatus(store, id, "In Review")
    /\ UNCHANGED <<df, now, sla, breach, dept, providers, rec, second, geo, trends, engine, session, script>>

MarkInProgress ==
    /\ \E id \in DOMAIN store :
           /\ InPriorityQueue(store[id])
           /\ store' = UpdateStatus(store, id, "In Progress")
    /\ UNCHANGED <<df, now, sla, breach, dept, providers, rec, second, geo, trends, engine, session, script>>

MarkResolved ==
    /\ \E id \in DOMAIN store :
           /\ InPriorityQueue(store[id])
           /\ store' = UpdateStatus(store, id, "Resolved")
    /\ UNCHANGED <<df, now, sla, breach, dept, providers, rec, second, geo, trends, engine, session, script>>

\* The assignments page's Assign button on an unassigned item.
Assign ==
    /\ \E id \in DOMAIN store, selected \in StaffNames :
           /\ store[id].assigned_to = ""
           /\ store' = UpdateFeedback(store, id, [assigned_to |-> selected])
    /\ UNCHANGED <<df, now, sla, breach, dept, providers, rec, second, geo, trends, engine, session, script>>

\* analyze_feedback_comprehensive(feedback_data): the first invocation.
Analyze ==
    /\ rec = NoResult
    /\ \E listing \in DepartmentListings(Departments(AnalysesOf(providers))) :
           rec' = AnalyzeFeedbackComprehensiveResult(providers, listing)
    /\ UNCHANGED <<df, now, sla, breach, dept, providers, second, geo, trends, engine, store, session, script>>

\* A second invocation for the same ticket with the same answers.
AnalyzeAgain ==
    /\ rec # NoResult
    /\ second = NoResult
    /\ \E listing \in DepartmentListings(Departments(AnalysesOf(providers))) :
           second' = [kind |-> "again",
                      result |-> AnalyzeFeedbackComprehensiveResult(providers, listing)]
    /\ UNCHANGED <<df, now, sla, breach, dept, providers, rec, geo, trends, engine, store, session, script>>

\* The answers with signal s lost: its component gone or its call raising.
\* self.ml is one component, so its two signals can only be lost by raising.
Signals == {"nlp", "priority", "sla", "embeddings", "openai"}
Without(p, s, m) == [p EXCEPT ![s] = [mode |-> m]]

\* A second invocation for the same ticket in which one signal that answered
\* the first time is unavailable, all else equal.
AnalyzeWithout ==
    /\ rec # NoResult
    /\ second = NoResult
    /\ \E s \in Signals, m \in {"absent", "raises"} :
           /\ providers[s].mode = "returns"
           /\ s \in {"priority", "sla"} => m = "raises"
           /\ \E listing \in DepartmentListings(
                                 Departments(AnalysesOf(Without(providers, s, m)))) :
                  second' = [kind |-> "without", signal |-> s, mode |-> m,
                             result |-> AnalyzeFeedbackComprehensiveResult(
                                            Without(providers, s, m), listing)]
    /\ UNCHANGED <<df, now, sla, breach, dept, providers, rec, geo, trends, engine, store, session, script>>

(***************************************************************************)
(* Specifications.                                                         *)
(***************************************************************************)
Next == PredictSlaBreaches \/ Tick

\* The SLA risk engine over time.
Spec == Init /\ [][Next]_vars

\* The SLA risk engine over tickets of different ages.
NextAges == PredictSlaBreaches \/ Tick
SpecAges == InitAges /\ [][NextAges]_vars

\* The SLA risk engine over collections with resolution times.
NextResolution == PredictSlaBreaches
SpecResolution == InitResolution /\ [][NextResolution]_vars

\* The breach probability of one ticket as it ages.
NextBreach == Elapse
SpecBreach == InitBreach /\ [][NextBreach]_vars

\* The department scorer.
NextDept == AnalyzeDepartmentPerformance
SpecDept == InitDept /\ [][NextDept]_vars

\* The department scorer over collections with creation times.
NextDeptTrend == AnalyzeDepartmentPerformance
SpecDeptTrend == InitDeptTrend /\ [][NextDeptTrend]_vars

\* The hotspot ranker.
NextGeo == AnalyzeGeospatialDistribution
SpecGeo == InitGeo /\ [][NextGeo]_vars

\* The trend analyzer.
NextTrends == CalculateTrends
SpecTrends == InitTrends /\ [][NextTrends]_vars

\* The four analyzers called in any order on one collection.
NextAnalyzers ==
    \/ CalculateTrends
    \/ PredictSlaBreaches
    \/ AnalyzeGeospatialDistribution
    \/ AnalyzeDepartmentPerformance
SpecAnalyzers == InitAnalyzers /\ [][NextAnalyzers]_vars

\* Citizens submit tickets, the SLA risk engine assesses them.
NextSubmit == SubmitFeedback \/ PredictSlaBreaches \/ Tick
SpecSubmit == InitSubmit /\ [][NextSubmit]_vars

\* The citizen portal, run after run.
NextPortal ==
    \/ RenderSidebar \/ RenderHomePage \/ RenderOtherPage \/ RenderSubmitPage
    \/ SubmitPressed \/ RejectSubmission \/ StoreSubmission \/ FailSubmission
SpecPortal == InitPortal /\ [][NextPortal]_vars

\* The admin portal.
NextAdmin == SaveChanges \/ MarkInReview \/ MarkInProgress \/ MarkResolved \/ Assign
SpecAdmin == InitAdmin /\ [][NextAdmin]_vars

\* The recommendation engine.
NextRec == Analyze \/ AnalyzeAgain \/ AnalyzeWithout
SpecRec == InitRec /\ [][NextRec]_vars


(***************************************************************************)
(* The claims.                                                             *)
(***************************************************************************)
ListedIds(list) == {list[i].id : i \in 1..Len(list)}
OpenRows == {i \in 1..Len(df) : IsOpen(df[i])}

\* As the specification states them: the target of a ticket, the time it has
\* left at the current instant, and its class.
TargetTicks(t) ==
    Hours(IF t.urgency \in SlaUrgencies THEN sla_config(t.urgency) ELSE sla_config("Medium"))
TicksRemaining(t) == TargetTicks(t) - (now - t.timestamp)
ClassOf(t) ==
    IF TicksRemaining(t) < 0 THEN "Breached"
    ELSE IF 5 * TicksRemaining(t) < TargetTicks(t) THEN "AtRisk"
    ELSE "OnTrack"

\* C1: every open ticket evaluated by predict_sla_breaches is listed as
\* breached iff its hours_remaining is below 0, and as at risk iff
\* 0 <= hours_remaining < 0.2 * sla_target.
C1_Classification ==
    sla.kind = "sla" =>
        \A i \in OpenRows :
            /\ df[i].id \in ListedIds(sla.breached_tickets)
                   <=> TicksRemaining(df[i]) < 0
            /\ df[i].id \in ListedIds(sla.at_risk_tickets)
                   <=> /\ TicksRemaining(df[i]) >= 0
                       /\ 5 * TicksRemaining(df[i]) < TargetTicks(df[i])

\* C1's example: a Critical ticket created 5 hours ago, status New, is breached.
C1_CriticalFiveHoursOld ==
    /\ sla.kind = "sla"
    /\ now = Hours(5)
    /\ \E i \in OpenRows :
           /\ df[i].urgency = "Critical" /\ df[i].status = "New"
           /\ df[i].timestamp = 0
           /\ df[i].id \in ListedIds(sla.breached_tickets)

\* The breach probability the specification gives a ticket, as a percentage
\* rounded to one decimal (a count of tenths).
StatedUrgencyWeight(u) ==
    CASE u = "Critical" -> <<9, 10>>
      [] u = "High" -> <<3, 4>>
      [] u = "Medium" -> <<1, 2>>
      [] u = "Low" -> <<3, 10>>
      [] OTHER -> <<1, 2>>
StatedProbability(t) ==
    LET elapsed == <<TargetTicks(t) - TicksRemaining(t), TargetTicks(t)>>
        time_factor == FMax(<<0, 1>>, FMin(<<1, 1>>, elapsed))
    IN  FAdd(FDiv(FScale(7, time_factor), 10), FDiv(FScale(3, StatedUrgencyWeight(t.urgency)), 10))
HasProbability(t) ==
    \E k \in 1..Len(sla.at_risk_tickets) :
        /\ sla.at_risk_tickets[k].id = t.id
        /\ sla.at_risk_tickets[k].breach_probability = Round1(FScale(100, StatedProbability(t)))

C3_ProbabilityMonotone ==
    /\ [][breach.kind = "row" /\ breach'.kind = "row"
            => FLeq(breach.probability, breach'.probability)]_vars
    /\ [](breach.kind = "row"
            => FLeq(<<0, 1>>, breach.probability) /\ FLeq(breach.probability, <<1, 1>>))

\* A ticket past its target, whose probability has grown to 0.7 + 0.3 * weight.
C3_GrownToPlateau ==
    /\ breach.kind = "row"
    /\ breach.hours_remaining < 0
    /\ breach.probability = FAdd(<<7, 10>>, FDiv(FScale(3, StatedUrgencyWeight(breach.urgency)), 10))
    /\ FLess(FDiv(FScale(3, StatedUrgencyWeight(breach.urgency)), 10), breach.probability)

\* The share of Resolved/Closed tickets resolved within their target, as a
\* percentage rounded to one decimal.
ResolvedRows == {i \in 1..Len(df) : IsResolved(df[i])}
WithinTarget == {i \in ResolvedRows : df[i].updated_at - df[i].timestamp <= TargetTicks(df[i])}
ActualCompliance == Round1(<<100 * Cardinality(WithinTarget), Cardinality(ResolvedRows)>>)

\* C4: sla_performance.compliant is the percentage of Resolved/Closed tickets
\* whose resolution time does not exceed the SLA target of their urgency.
C4_ComplianceFromTimestamps ==
    sla.kind = "sla" /\ OpenRows # {} /\ ResolvedRows # {}
        => sla.sla_performance.compliant = ActualCompliance

\* C5: every department's performance_score lies in [0, 100].
C5_ScoreInRange ==
    dept.kind = "dept" =>
        \A k \in 1..Len(dept.department_metrics) :
            /\ dept.department_metrics[k].performance_score >= 0
            /\ dept.department_metrics[k].performance_score <= 1000

\* Two departments scored, the better one above 90.
C5_TwoDepartmentsScored ==
    /\ dept.kind = "dept"
    /\ Len(dept.department_metrics) = 2
    /\ dept.department_metrics[1].performance_score > 900
    /\ dept.department_metrics[2].performance_score < 500


Analysed == rec.kind = "analysis"
MeanOf(scores) == <<SumSeq(scores), Len(scores)>>

\* C6: two invocations with the same ticket and the same signal outputs
\* return the same recommendation, the order of department_suggestions
\* included.
C6_SameSignalsSameRecommendation ==
    second.kind = "again" => second.result.recommendations = rec.recommendations

\* The priority votes of the signals that are present, as the specification
\* lists them: the ML-predicted priority, the sentiment vote, the
\* breach-probability vote.
StatedVotes(p) ==
    (IF p.priority.mode = "returns"
     THEN <<CASE p.priority.predicted_priority = "Low" -> 1
              [] p.priority.predicted_priority = "Medium" -> 2
              [] p.priority.predicted_priority = "High" -> 3
              [] p.priority.predicted_priority = "Critical" -> 4>>
     ELSE <<>>)
    \o (IF p.nlp.mode = "returns" /\ p.nlp.sentiment.label = "Negative" THEN <<3>>
        ELSE IF p.nlp.mode = "returns" /\ p.nlp.sentiment.label = "Positive" THEN <<1>>
        ELSE <<>>)
    \o (IF p.sla.mode = "returns" /\ p.sla.breach_probability > 7 THEN <<4>>
        ELSE IF p.sla.mode = "returns" /\ p.sla.breach_probability > 4 THEN <<3>>
        ELSE <<>>)
StatedPriority(votes) ==
    IF FLeq(<<7, 2>>, MeanOf(votes)) THEN "Critical"
    ELSE IF FLeq(<<5, 2>>, MeanOf(votes)) THEN "High"
    ELSE IF FLeq(<<3, 2>>, MeanOf(votes)) THEN "Medium"
    ELSE "Low"

\* C7: priority_level is the average of only the priority votes that are
\* present, mapped >= 3.5 Critical, >= 2.5 High, >= 1.5 Medium, otherwise Low
\* (stated here for sentiments given as a label, and at least one vote).
C7_PriorityFromPresentVotes ==
    /\ Analysed
    /\ providers.nlp.mode = "returns" => providers.nlp.sentiment.shape = "str"
    /\ StatedVotes(providers) # <<>>
    => rec.recommendations.priority_level = StatedPriority(StatedVotes(providers))

ConfidenceRank(level) ==
    CASE level = "Low" -> 1 [] level = "Medium" -> 2 [] level = "High" -> 3

\* C8: with one signal unavailable, all else equal, the recommendation is
\* complete and its confidence_level is not higher than with the signal.
C8_LostSignalNeverRaisesConfidence ==
    second.kind = "without" =>
        /\ second.result.recommendations.priority_level \in {"Low", "Medium", "High", "Critical"}
        /\ ConfidenceRank(second.result.recommendations.confidence_level)
               <= ConfidenceRank(rec.recommendations.confidence_level)

StatedResolutionTime(priority_level) ==
    CASE priority_level = "Critical" -> "1-2 business days"
      [] priority_level = "High" -> "2-3 business days"
      [] priority_level = "Medium" -> "3-5 business days"
      [] priority_level = "Low" -> "1-2 weeks"

\* C9: estimated_resolution_time is looked up from the final priority_level
\* of the same recommendation.
C9_ResolutionTimeFromFinalPriority ==
    Analysed =>
        rec.recommendations.estimated_resolution_time
            = StatedResolutionTime(rec.recommendations.priority_level)

\* C10 as stated: with the average of the contributing signals' values,
\* confidence_level is Low below 0.6, Medium from 0.6 to below 0.8, and High
\* from 0.8 on.
C10_BucketsInclusive ==
    Analysed /\ rec.confidence_scores # <<>> =>
        rec.recommendations.confidence_level =
            (IF FLeq(<<80, 1>>, MeanOf(rec.confidence_scores)) THEN "High"
             ELSE IF FLeq(<<60, 1>>, MeanOf(rec.confidence_scores)) THEN "Medium"
             ELSE "Low")

\* C10 as amended: confidence_level is High when the average is above 0.8,
\* Medium when it is above 0.6 and at most 0.8, Low when it is at most 0.6;
\* with no contributing signal the average is taken to be 0.5, so Low.
C10_BucketsExclusive ==
    Analysed =>
        LET avg == IF rec.confidence_scores = <<>> THEN <<50, 1>>
                   ELSE MeanOf(rec.confidence_scores)
            level == rec.recommendations.confidence_level
        IN  /\ level = "High" <=> FLess(<<80, 1>>, avg)
            /\ level = "Medium" <=> FLess(<<60, 1>>, avg) /\ FLeq(avg, <<80, 1>>)
            /\ level = "Low" <=> FLeq(avg, <<60, 1>>)

\* An average of exactly 0.8, reported as Medium.
C10_ExactlyEightTenths ==
    /\ Analysed
    /\ rec.confidence_scores # <<>>
    /\ SumSeq(rec.confidence_scores) = 80 * Len(rec.confidence_scores)
    /\ rec.recommendations.confidence_level = "Medium"


\* The departments of a result, best first.
DepartmentOrder(result) ==
    [k \in 1..Len(result.department_metrics) |-> result.department_metrics[k].department]

\* C11: two runs of analyze_department_performance over the same ticket
\* collection return the same avg_response_time_hours, the same
\* performance_score and the same department ordering.
C11_SameCollectionSameMetrics ==
    [][dept.kind = "dept" /\ dept'.kind = "dept" /\ df' = df
          => /\ DepartmentOrder(dept') = DepartmentOrder(dept)
             /\ \A k \in 1..Len(dept.department_metrics) :
                    /\ dept'.department_metrics[k].avg_response_time_hours
                           = dept.department_metrics[k].avg_response_time_hours
                    /\ dept'.department_metrics[k].performance_score
                           = dept.department_metrics[k].performance_score]_vars


\* The parsable tickets of department d in chronological order, and the trend
\* the specification derives from their two halves.
ChronologicalRows(d) ==
    LET parsed == SelectSeq(DepartmentRows(df, d), LAMBDA t : t.parsable)
    IN  Reorder(parsed, SortOrder([i \in 1..Len(parsed) |-> parsed[i].timestamp], FALSE))
StatedTrend(d) ==
    LET ordered == ChronologicalRows(d)
        older == SubSeq(ordered, 1, Len(ordered) \div 2)
        recent == SubSeq(ordered, Len(ordered) \div 2 + 1, Len(ordered))
    IN  IF Len(ordered) < 2 THEN "stable"
        ELSE IF 100 * Len(recent) > 115 * Len(older) THEN "increasing"
        ELSE IF 100 * Len(recent) < 85 * Len(older) THEN "decreasing"
        ELSE "stable"

\* C12: a department's trend is 'increasing' if the recent half of its
\* tickets, ordered by created_at, counts more than 1.15 times the older
\* half, 'decreasing' if less than 0.85 times, otherwise 'stable'; with fewer
\* than 2 tickets having parsable timestamps it is 'stable'.
C12_TrendFromHalves ==
    dept.kind = "dept" =>
        \A k \in 1..Len(dept.department_metrics) :
            dept.department_metrics[k].trend
                = StatedTrend(dept.department_metrics[k].department)

\* A department of three tickets stored newest first, reported as increasing.
C12_ThreeTicketsNewestFirst ==
    /\ dept.kind = "dept"
    /\ \E k \in 1..Len(dept.department_metrics) :
           /\ dept.department_metrics[k].trend = "increasing"
           /\ dept.department_metrics[k].total_tickets = 3
           /\ df[1].timestamp > df[3].timestamp
    /\ Len(df) = 3


\* An area's factors as the specification names them: the ticket count, the
\* average urgency weight (Low 1, Medium 2, High 3, Critical 4, over the
\* tickets that carry one of these) and the negative-sentiment fraction.
AreaTickets(a) == {i \in 1..Len(df) : df[i].area = a}
StatedWeight(u) ==
    CASE u = "Low" -> 1 [] u = "Medium" -> 2 [] u = "High" -> 3 [] u = "Critical" -> 4
Weighted(a) == {i \in AreaTickets(a) : df[i].urgency \in {"Low", "Medium", "High", "Critical"}}
StatedAvgWeight(a) ==
    LET idx == SelectSeq([i \in 1..Len(df) |-> i], LAMBDA i : i \in Weighted(a))
    IN  FNorm(<<SumSeq([k \in 1..Len(idx) |-> StatedWeight(df[idx[k]].urgency)]), Len(idx)>>)
StatedNegativeFraction(a) ==
    FNorm(<<Cardinality({i \in AreaTickets(a) : df[i].sentiment = "Negative"}),
            Cardinality(AreaTickets(a))>>)
StatedHotspotScore(a) ==
    LET avg == StatedAvgWeight(a)
        neg == StatedNegativeFraction(a)
    IN  FNorm(<<Cardinality(AreaTickets(a)) * avg[1] * (neg[2] + neg[1]), avg[2] * neg[2]>>)

\* C13: an area's hotspot score equals count * avg_urgency_weight *
\* (1 + negative_fraction), to two decimals, and between two areas it does not
\* decrease when one of the three factors increases and the other two are the
\* same (areas with at least one ticket carrying an urgency weight).
C13_HotspotScore ==
    geo.kind = "geo" =>
        \A h1, h2 \in {geo.location_hotspots[k] : k \in 1..Len(geo.location_hotspots)} :
            (Weighted(h1.area) # {} /\ Weighted(h2.area) # {}) =>
                LET c1 == Cardinality(AreaTickets(h1.area))
                    c2 == Cardinality(AreaTickets(h2.area))
                    u1 == StatedAvgWeight(h1.area)
                    u2 == StatedAvgWeight(h2.area)
                    n1 == StatedNegativeFraction(h1.area)
                    n2 == StatedNegativeFraction(h2.area)
                IN  /\ h1.hotspot_score = Round2(StatedHotspotScore(h1.area))
                    /\ (c1 <= c2 /\ u1 = u2 /\ n1 = n2) => h1.hotspot_score <= h2.hotspot_score
                    /\ (c1 = c2 /\ FLeq(u1, u2) /\ n1 = n2) => h1.hotspot_score <= h2.hotspot_score
                    /\ (c1 = c2 /\ u1 = u2 /\ FLeq(n1, n2)) => h1.hotspot_score <= h2.hotspot_score

\* Two areas alike in count and urgency, the one with the larger negative
\* fraction scoring strictly higher.
C13_MoreNegativeScoresHigher ==
    /\ geo.kind = "geo"
    /\ Len(geo.location_hotspots) = 2
    /\ geo.location_hotspots[1].count = geo.location_hotspots[2].count
    /\ geo.location_hotspots[1].avg_urgency = geo.location_hotspots[2].avg_urgency
    /\ geo.location_hotspots[1].avg_urgency # ReportedNaN
    /\ geo.location_hotspots[1].negative_sentiment_pct
           > geo.location_hotspots[2].negative_sentiment_pct
    /\ geo.location_hotspots[1].hotspot_score > geo.location_hotspots[2].hotspot_score


\* C14: the growth rate is (last - previous) / previous * 100 over the last
\* two buckets of the total series; when the previous bucket counts 0 it is
\* 100 if the last bucket counts more than 0, and 0 otherwise.
C14_GrowthRate ==
    trends.kind = "trends" /\ Len(trends.total_counts) >= 2 =>
        LET last == trends.total_counts[Len(trends.total_counts)].count
            previous == trends.total_counts[Len(trends.total_counts) - 1].count
        IN  /\ previous # 0 =>
                /\ trends.growth_rate[1] * previous
                       = (last - previous) * 100 * trends.growth_rate[2]
                /\ trends.growth_rate[2] > 0
            /\ previous = 0 =>
                trends.growth_rate = (IF last > 0 THEN <<100, 1>> ELSE <<0, 1>>)

\* A series that fell from 2 to 1 in its last bucket: growth -50.
C14_FallByHalf ==
    /\ trends.kind = "trends"
    /\ Len(trends.total_counts) >= 2
    /\ trends.total_counts[Len(trends.total_counts) - 1].count = 2
    /\ trends.total_counts[Len(trends.total_counts)].count = 1
    /\ trends.growth_rate = <<-50, 1>>


\* C15: for any non-empty bucket series the forecast contains exactly the
\* requested number of future periods (4), each predicting the mean of the
\* last min(3, series_length) bucket counts (to the nearest whole number),
\* the i-th label being the last bucket's plus i inferred bucket widths.
C15_ForecastForEverySeries ==
    trends.kind = "trends" /\ Len(trends.total_counts) >= 1 =>
        LET n == Len(trends.total_counts)
            window == IF 3 < n THEN 3 ELSE n
            total == SumSeq([k \in 1..window |-> trends.total_counts[n - window + k].count])
        IN  /\ Len(trends.forecast) = 4
            /\ \A i \in 1..Len(trends.forecast) :
                   /\ trends.forecast[i].predicted_value = Rounded(total, window)
                   /\ n >= 2 =>
                          trends.forecast[i].period
                              = trends.total_counts[n].label
                                + i * (trends.total_counts[n].label
                                       - trends.total_counts[n - 1].label)

\* C16: calculate_trends on an empty collection, or on one in which every
\* created_at is unparsable, returns empty total, sentiment and category
\* series, growth rate 0.0, an empty forecast and a summary stating that no
\* data is available.
C16_NothingToAnalyse ==
    trends.kind = "trends" /\ (\A i \in 1..Len(df) : ~df[i].parsable) =>
        /\ trends.total_counts = <<>>
        /\ trends.sentiment_trends = <<>>
        /\ trends.category_trends = <<>>
        /\ trends.growth_rate = <<0, 1>>
        /\ trends.forecast = <<>>
        /\ trends.summary.text = "No data available for trend analysis"

\* A collection of two tickets, neither with a readable timestamp, analysed.
C16_AllUnparsable ==
    /\ trends.kind = "trends"
    /\ Len(df) = 2
    /\ \A i \in 1..Len(df) : ~df[i].parsable
    /\ trends.total_counts = <<>>


\* C17 as stated: for any collection with no open ticket, the empty one
\* included, predict_sla_breaches returns at_risk_count = 0, breach_count = 0,
\* empty at-risk and breached lists, and exactly one recommendation.
C17_NoOpenTicketAllClear ==
    sla.kind = "sla" /\ OpenRows = {} =>
        /\ sla.at_risk_count = 0 /\ sla.breach_count = 0
        /\ sla.at_risk_tickets = <<>> /\ sla.breached_tickets = <<>>
        /\ Len(sla.recommendations) = 1

\* C17 as amended: the counts are 0 and the lists empty; a non-empty
\* collection with no open ticket gets exactly one recommendation, 'No open
\* tickets at risk', and the empty collection gets none.
C17_AllClearUnlessEmpty ==
    sla.kind = "sla" /\ OpenRows = {} =>
        /\ sla.at_risk_count = 0 /\ sla.breach_count = 0
        /\ sla.at_risk_tickets = <<>> /\ sla.breached_tickets = <<>>
        /\ df # <<>> => sla.recommendations = <<"No open tickets at risk">>
        /\ df = <<>> => sla.recommendations = <<>>

\* A collection of a Resolved and a Closed ticket, evaluated.
C17_OnlyResolvedAndClosed ==
    /\ sla.kind = "sla"
    /\ Len(df) = 2
    /\ df[1].status = "Resolved" /\ df[2].status = "Closed"
    /\ sla.recommendations = <<"No open tickets at risk">>


\* The open tickets whose urgency is no key of the SLA policy.
UnknownUrgencyRows == {i \in OpenRows : df[i].urgency \notin SlaUrgencies}
EntryOf(list, id) == CHOOSE e \in {list[k] : k \in 1..Len(list)} : e.id = id

\* C18: an open ticket whose urgency is not a key of the SLA policy is
\* assessed with Medium's target of 72 hours, and with the urgency weight 0.5
\* in its breach probability: it is listed as breached once more than 72 hours
\* old, and as at risk, with that probability, in the last 14.4 hours before.
C18_UnknownUrgencyAssessedAsMedium ==
    sla.kind = "sla" =>
        \A i \in UnknownUrgencyRows :
            LET elapsed == now - df[i].timestamp
                left == Hours(72) - elapsed
            IN  /\ df[i].id \in ListedIds(sla.breached_tickets) <=> left < 0
                /\ left < 0 =>
                       EntryOf(sla.breached_tickets, df[i].id).hours_overdue
                           = Round1(<<0 - left, 15>>)
                /\ df[i].id \in ListedIds(sla.at_risk_tickets)
                       <=> (left >= 0 /\ 5 * left < Hours(72))
                /\ (left >= 0 /\ 5 * left < Hours(72)) =>
                       LET e == EntryOf(sla.at_risk_tickets, df[i].id)
                       IN  /\ e.hours_remaining = Round1(<<left, 15>>)
                           /\ e.breach_probability
                                  = Round1(FAdd(<<70 * elapsed, Hours(72)>>, <<15, 1>>))

\* An 'Emergency' ticket just over 57.6 hours old, reported at risk with 14.3
\* hours left.
C18_EmergencyAtRisk ==
    /\ sla.kind = "sla"
    /\ \E i \in UnknownUrgencyRows :
           /\ df[i].urgency = "Emergency"
           /\ df[i].id \in ListedIds(sla.at_risk_tickets)
           /\ EntryOf(sla.at_risk_tickets, df[i].id).hours_remaining = 143


\* The department the static table gives a category, 'General' when the
\* category is missing from it.
StatedDepartment(c) == IF c \in MappedCategories THEN department_mapping(c) ELSE "General"

\* C19: every ticket is counted in exactly one department, the one its
\* category maps to or 'General'; the total_tickets of the returned
\* departments sum to the number of tickets in the collection.
C19_EveryTicketInOneDepartment ==
    dept.kind = "dept" =>
        LET metrics == dept.department_metrics
        IN  /\ \A k \in 1..Len(metrics) :
                   metrics[k].total_tickets
                       = Cardinality({i \in 1..Len(df) :
                             StatedDepartment(df[i].category) = metrics[k].department})
            /\ \A i \in 1..Len(df) :
                   Cardinality({k \in 1..Len(metrics) :
                       metrics[k].department = StatedDepartment(df[i].category)}) = 1
            /\ SumSeq([k \in 1..Len(metrics) |-> metrics[k].total_tickets]) = Len(df)

\* A ticket of a mapped category and one of a category missing from the
\* table, counted under Infrastructure and under General.
C19_MappedAndUnmapped ==
    /\ dept.kind = "dept"
    /\ Len(df) = 2
    /\ df[1].category = "Roads & Transportation" /\ df[2].category = "Housing"
    /\ {dept.department_metrics[k].department : k \in 1..Len(dept.department_metrics)}
           = {"Infrastructure", "General"}


\* C20: breached_tickets is ordered by hours overdue from largest to
\* smallest and at_risk_tickets by hours remaining from smallest to largest.
C20_ListsOrdered ==
    sla.kind = "sla" =>
        /\ \A k \in 1..(Len(sla.breached_tickets) - 1) :
               sla.breached_tickets[k].hours_overdue
                   >= sla.breached_tickets[k + 1].hours_overdue
        /\ \A k \in 1..(Len(sla.at_risk_tickets) - 1) :
               sla.at_risk_tickets[k].hours_remaining
                   <= sla.at_risk_tickets[k + 1].hours_remaining

\* Two at-risk tickets, the one stored second with less time left and so
\* listed first.
C20_SecondRowListedFirst ==
    /\ sla.kind = "sla"
    /\ Len(sla.at_risk_tickets) = 2
    /\ sla.at_risk_tickets[1].id = 2
    /\ sla.at_risk_tickets[1].hours_remaining < sla.at_risk_tickets[2].hours_remaining


\* The performance_score the result reports for a department.
ScoreOf(d) ==
    (CHOOSE m \in {dept.department_metrics[k] : k \in 1..Len(dept.department_metrics)} :
         m.department = d).performance_score
ReportedDepartments ==
    {dept.department_metrics[k].department : k \in 1..Len(dept.department_metrics)}
DepartmentsOrdered ==
    \A k \in 1..(Len(dept.department_metrics) - 1) :
        dept.department_metrics[k].performance_score
            >= dept.department_metrics[k + 1].performance_score
TopIsHighest ==
    /\ dept.top_performer \in ReportedDepartments
    /\ \A d \in ReportedDepartments : ScoreOf(dept.top_performer) >= ScoreOf(d)

\* C21 as stated: for every collection that yields at least one department
\* the departments are ordered by performance_score from highest to lowest,
\* top_performer has the highest score and bottom_performer the lowest.
C21_TopAndBottomAlways ==
    dept.kind = "dept" /\ Len(dept.department_metrics) >= 1 =>
        /\ DepartmentsOrdered
        /\ TopIsHighest
        /\ dept.bottom_performer \in ReportedDepartments
        /\ \A d \in ReportedDepartments : ScoreOf(dept.bottom_performer) <= ScoreOf(d)

\* C21 as amended: the order and top_performer are as stated; bottom_performer
\* has the lowest score when there are at least two departments, and is None
\* when there is only one.
C21_BottomNeedsTwoDepartments ==
    dept.kind = "dept" /\ Len(dept.department_metrics) >= 1 =>
        /\ DepartmentsOrdered
        /\ TopIsHighest
        /\ Len(dept.department_metrics) >= 2 =>
               /\ dept.bottom_performer \in ReportedDepartments
               /\ \A d \in ReportedDepartments : ScoreOf(dept.bottom_performer) <= ScoreOf(d)
        /\ Len(dept.department_metrics) = 1 => dept.bottom_performer = "None"

\* Two departments, the one met second in the collection scoring higher and
\* so reported first, as top_performer.
C21_SecondDepartmentOnTop ==
    /\ dept.kind = "dept"
    /\ Len(dept.department_metrics) = 2
    /\ dept.top_performer = department_mapping(df[2].category)
    /\ dept.bottom_performer = department_mapping(df[1].category)
    /\ dept.department_metrics[1].performance_score
           > dept.department_metrics[2].performance_score


\* The rows of the collection with a readable timestamp, and the others.
ParsableRows == SelectSeq(df, LAMBDA t : t.parsable)
SkippedCount == Len(df) - Len(ParsableRows)

\* C22: when some tickets have an unparsable created_at, calculate_trends
\* skips exactly those, processes all the others, and its result surfaces
\* the number of records skipped: the bucket counts add up to the tickets with
\* a readable timestamp, and the result is not the one returned for the
\* collection without the skipped tickets, where the number is 0.
C22_SkippedCountSurfaced ==
    trends.kind = "trends" /\ SkippedCount > 0 =>
        /\ SumSeq([k \in 1..Len(trends.total_counts) |-> trends.total_counts[k].count])
               = Len(ParsableRows)
        /\ \A period \in Periods : trends # CalculateTrendsResult(ParsableRows, period)


C24_AssignedBeforeProgress ==
    \A i \in DOMAIN store :
        store[i].status \in {"In Progress", "Resolved", "Closed"} => store[i].assigned_to # ""


\* C25: when the NLP analyzer's answer, in the form analyze_comprehensive
\* returns it (the sentiment a dictionary holding the label), reports Negative
\* sentiment, the priority is the one the votes with a sentiment vote of 3
\* give (stated for an ML priority signal that is absent or has answered).
C25_NegativeSentimentVotes ==
    /\ Analysed
    /\ providers.nlp.mode = "returns"
    /\ providers.nlp.sentiment.shape = "dict"
    /\ providers.nlp.sentiment.label = "Negative"
    /\ providers.priority.mode # "raises"
    => rec.recommendations.priority_level = StatedPriority(StatedVotes(providers))


\* C26: every ticket the citizen form stored carries an urgency that is a key
\* of the SLA policy, and a ticket of the highest selectable urgency has a
\* target no longer than that of any other stored ticket.
C26_FormUrgencyIsSlaKey ==
    \A i \in 1..Len(df) :
        /\ df[i].urgency \in DOMAIN engine.sla_config
        /\ df[i].urgency = UrgencyOptions[Len(UrgencyOptions)] =>
               \A j \in 1..Len(df) : SlaHours(df[i].urgency) <= SlaHours(df[j].urgency)


\* The class predict_sla_breaches gives a ticket when it is called at the
\* instant clock: the list of its result that holds the ticket.
AssessedClass(rows, clock, id) ==
    LET result == PredictSlaBreachesResult(rows, clock, 0)
    IN  IF id \in ListedIds(result.breached_tickets) THEN "Breached"
        ELSE IF id \in ListedIds(result.at_risk_tickets) THEN "AtRisk"
        ELSE "OnTrack"
ClassRank(class) ==
    CASE class = "OnTrack" -> 1 [] class = "AtRisk" -> 2 [] class = "Breached" -> 3

\* C27: as the evaluation time advances, the class of a ticket that stays
\* open only moves forward along OnTrack -> AtRisk -> Breached.
C27_ClassOnlyMovesForward ==
    [][\A i \in OpenRows :
          ClassRank(AssessedClass(df, now', df[i].id)) >= ClassRank(AssessedClass(df, now, df[i].id))]_vars

\* A Critical ticket has gone all the way to Breached and a High ticket has
\* left OnTrack, by the time of an evaluation 19.2 hours after their creation.
C27_BothHaveMovedOn ==
    /\ sla.kind = "sla"
    /\ now = 12 * sla_config("High") + 1
    /\ Len(df) = 2
    /\ df[1].urgency = "Critical" /\ df[2].urgency = "High"
    /\ AssessedClass(df, 0, 1) = "OnTrack" /\ AssessedClass(df, 0, 2) = "OnTrack"
    /\ ListedIds(sla.breached_tickets) = {1}
    /\ ListedIds(sla.at_risk_tickets) = {2}

\* C28: in every result of predict_sla_breaches no ticket is in both lists,
\* every listed ticket is an open one of the collection, and the two counts
\* are the lengths of the two lists.
C28_ListsDisjointOpenCounted ==
    sla.kind = "sla" =>
        /\ ListedIds(sla.at_risk_tickets) \cap ListedIds(sla.breached_tickets) = {}
        /\ ListedIds(sla.at_risk_tickets) \cup ListedIds(sla.breached_tickets)
               \subseteq {df[i].id : i \in OpenRows}
        /\ sla.at_risk_count = Len(sla.at_risk_tickets)
        /\ sla.breach_count = Len(sla.breached_tickets)

\* An evaluation that lists one ticket at risk and leaves a Resolved one,
\* long past its target, out of both lists.
C28_ResolvedBesideAtRisk ==
    /\ sla.kind = "sla"
    /\ Len(df) = 2
    /\ df[1].status = "Resolved" /\ df[1].urgency = "Critical"
    /\ df[2].status = "In Progress" /\ df[2].urgency = "High"
    /\ now = 12 * sla_config("High") + 1
    /\ sla.at_risk_count = 1 /\ sla.breach_count = 0
    /\ ListedIds(sla.at_risk_tickets) = {2}


\* C29: whatever happens to a form submission, submission_in_progress is
\* False when the script run ends, and so when the next run's sidebar is
\* rendered and when its page is rendered.
C29_FlagClearedAtEndOfRun ==
    script.pc \in {"render_sidebar", "render_page"} => ~session.submission_in_progress

\* A run has ended after a submission that was stored while the webhook call
\* did not succeed.
C29_StoredWithoutWebhook ==
    /\ script.pc = "render_sidebar"
    /\ session.stay_on_page
    /\ session.last_tracking_id \in TrackingIds
    /\ ~session.n8n_success
    /\ ~session.success_shown
    /\ ~session.submission_in_progress


\* The success panel's state, and the state with nothing of it left.
PanelState(s) == <<s.stay_on_page, s.last_tracking_id, s.last_email, s.n8n_success>>
PanelCleared(s) ==
    /\ ~s.stay_on_page /\ ~s.success_shown /\ ~s.n8n_success
    /\ s.last_tracking_id = None /\ s.last_email = None

\* The sidebar of a run took the citizen elsewhere: a pending nav_to was
\* consumed, or the menu selection is another one than before.
SidebarNavigated ==
    \/ session.nav_to # None /\ session'.nav_to = None
    \/ session'.menu_selection # session.menu_selection

=============================================================================
